---------------------------- MODULE Spec2Model ----------------------------
(***************************************************************************)
(* The message pipeline of internal/conversation (message.go, kept in      *)
(* src/internal/automation/automation.go from line 372 on): the periodic   *)
(* scanner and the dispatch workers of the outgoing path, the ingress      *)
(* queue with its single incoming worker, and Manager.Close.               *)
(***************************************************************************)
EXTENDS Integers, Sequences, FiniteSets, TLC

(***************************************************************************)
(* Bounds of the model.                                                    *)
(***************************************************************************)
NumMsgs == 1
NumWorkers == 2
OutCap == 1
NumSids == 3
MaxStored == 2
MaxEnqueue == 2
InCap == 1
NumCallers == 2
NumInserters == 2
MaxInserts == 2
NumRules == 2
NumTogglers == 2
NumConvs == 2
NumAutoWorkers == 1
TrigCap == 1
TaskCap == 1
NumReceived == 1
NumPrivate == 1
NumFailed == 1
NumUsers == 2
NumBroadcasters == 2

Msgs == 1..NumMsgs
ReceivedMsgs == (NumMsgs + 1)..(NumMsgs + NumReceived)
PrivateMsgs == (NumMsgs + NumReceived + 1)..(NumMsgs + NumReceived + NumPrivate)
FailedMsgs ==
    (NumMsgs + NumReceived + NumPrivate + 1)..(NumMsgs + NumReceived + NumPrivate + NumFailed)
AllMsgs == Msgs \cup ReceivedMsgs \cup PrivateMsgs \cup FailedMsgs
Workers == 1..NumWorkers
Sids == 1..NumSids
Callers == 1..NumCallers
Inserters == 1..NumInserters
Rules == 1..NumRules
Togglers == 1..NumTogglers
Convs == 1..NumConvs
Users == 1..NumUsers
Broadcasters == 1..NumBroadcasters
AutoWorkers == 1..NumAutoWorkers

RuleTypeNewConversation == "new-conversation"
RuleTypeConversationUpdate == "conversation-update"
RuleTypeTimeTrigger == "time-trigger"
RuleTypes == {RuleTypeNewConversation, RuleTypeConversationUpdate, RuleTypeTimeTrigger}

NewConversation == "new"
UpdateConversation == "update"
TimeTrigger == "time-trigger"

MessageStatusPending == "pending"
MessageStatusSent == "sent"
MessageStatusFailed == "failed"
MessageStatusReceived == "received"

MessageIncoming == "incoming"
MessageOutgoing == "outgoing"

\* The rows of the store: the customer-visible outgoing messages Msgs, the
\* incoming messages ReceivedMsgs, the private notes PrivateMsgs, and the
\* outgoing messages FailedMsgs whose send failed before the pipeline started.
Type(m) == IF m \in ReceivedMsgs THEN MessageIncoming ELSE MessageOutgoing
Private(m) == m \in PrivateMsgs

\* The status a row is inserted with: InsertMessage stores a private message
\* as sent; an incoming message comes in as received, an outgoing one as
\* pending.
InsertedStatus(m) ==
    IF Private(m) THEN MessageStatusSent
    ELSE IF Type(m) = MessageIncoming THEN MessageStatusReceived
    ELSE MessageStatusPending

VARIABLES
    status,            \* stored status of every outgoing message
    lastWrite,         \* last status write: its call site, the status it replaced
    propUpdates,       \* last message status broadcast, parity of their number
    firstReplyAt,      \* the conversation's first-reply stamp (0: not set)
    firstSent,         \* message of the first Send that returned nil (0: none yet)
    inflight,          \* m.outgoingProcessingMessages (keys)
    outQ,              \* m.outgoingMessageQueue (buffered channel)
    spc,               \* position of the scanner loop
    scanIDs,           \* messageIDs read by the current scan tick
    pendingMessages,   \* pendingMessages still to be handled by the tick
    wpc,               \* position of every dispatch worker
    wmsg,              \* message held by every dispatch worker (0: none)
    werr,              \* failure met by the worker for the held message
    inQ,               \* m.incomingMessageQueue (buffered channel)
    epc,               \* position of every EnqueueIncoming caller
    eres,              \* what EnqueueIncoming returned to the caller last
    ipc,               \* position of the incoming worker
    ihand,             \* message taken by the incoming worker
    iret,              \* what processIncomingMessage returned last
    messages,          \* stored incoming messages, in insertion order
    conversations,     \* stored conversations, in creation order
    newConvTriggers,   \* conversations handed to EvaluateNewConversationRules
    accepted,          \* messages EnqueueIncoming put on the queue, in order
    nproc,             \* number of messages processIncomingMessage has handled
    closed,            \* m.closed
    mu,                \* holder of m.closedMu
    cpc,               \* position of Manager.Close
    outClosed,         \* outgoingMessageQueue is closed
    inClosed,          \* incomingMessageQueue is closed
    cancelled,         \* ctx.Done() is closed
    panicked,          \* a goroutine panicked: the process is gone
    inspc,             \* position of every InsertMessage caller
    insmsg,            \* id of the message the caller inserted (0: none)
    ninserted,         \* rows of the conversation's messages; ids are 1..ninserted
    lastMessage,       \* message whose summary is the conversation's last message
    newMessages,       \* last new-message broadcast, parity of their number
    ruleType,          \* stored rule records: their type
    ruleEnabled,       \* stored rule records: enabled or not
    ruleDecodes,       \* stored rule records: their serialized rules decode
    rules,             \* e.rules, the snapshot: rules with the type they were loaded with
    rulesMu,           \* writer holding e.rulesMu (0: none)
    tpc,               \* position of every ToggleRule caller
    trule,             \* rule the caller toggles
    tlocal,            \* what queryRules returned to the caller
    tres,              \* what the caller's last rule call returned
    newConversationQ,  \* e.newConversationQ (buffered channel)
    updateConversationQ, \* e.updateConversationQ (buffered channel)
    taskQueue,         \* taskQueue of Engine.Run (buffered channel)
    rpc,               \* position of the loop of Engine.Run
    rtask,             \* task Engine.Run is about to push
    apc,               \* position of every automation worker
    atask,             \* task held by every automation worker
    aconvs,            \* conversations the worker fetched for its task
    evaluated,         \* <<rule, conversation>> pairs evaluated for the worker's task
    touched,           \* conversations a rule's actions have mutated
    fetchErr,          \* the handler of the worker's last task returned on a failed fetch
    subscribers,       \* the hub's registry: user ids subscribed to every conversation
    bpc,               \* position of every caller of a Broadcast function
    bkind,             \* Type of the message the caller built ("none": no call yet)
    bconv,             \* conversationUUID the caller passed (0: none)
    buser,             \* userID the caller passed to BroadcastNewConversation (0: none)
    bvalue,            \* value the caller passed for the payload
    userIDs,           \* userIDs handed to broadcastToUsers by the caller
    handoffs,          \* calls of wsHub.BroadcastMessage made for the caller's call
    eclosed,           \* e.closed
    ecpc,              \* position of Engine.Close
    newClosed,         \* e.newConversationQ is closed
    updClosed,         \* e.updateConversationQ is closed
    epanicked          \* a goroutine of the engine's callers panicked

dvars == <<status, lastWrite, propUpdates, firstReplyAt, firstSent, inflight, outQ, spc, scanIDs,
           pendingMessages, wpc, wmsg, werr>>

ivars == <<inQ, epc, eres, ipc, ihand, iret, messages, conversations,
           newConvTriggers, accepted, nproc>>

svars == <<closed, mu, cpc, outClosed, inClosed, cancelled, panicked>>

cvars == <<inspc, insmsg, ninserted, lastMessage, newMessages>>

\* What the message pipeline (outgoing path, ingress, shutdown) leaves alone.
\* The rule store, the snapshot and the ToggleRule callers.
rvars == <<ruleType, ruleEnabled, ruleDecodes, rules, rulesMu, tpc, trule, tlocal, tres>>

\* The trigger queues, Engine.Run and the automation workers.
qvars == <<newConversationQ, updateConversationQ, taskQueue, rpc, rtask,
           apc, atask, aconvs, evaluated, touched, fetchErr>>

\* Engine.Close: the closed flag, the trigger queues' closing.
xvars == <<eclosed, ecpc, newClosed, updClosed, epanicked>>

evars == <<rvars, qvars, xvars>>

\* The hub's registry and the callers of the broadcast adapter.
bvars == <<subscribers, bpc, bkind, bconv, buser, bvalue, userIDs, handoffs>>

NotPipeline == <<cvars, evars, bvars>>

vars == <<dvars, ivars, svars, NotPipeline>>

\* What the actions of the outgoing path leave alone.
NotDispatch == <<ivars, svars, NotPipeline>>

\* What the callers of InsertMessage leave alone.
NotInsert == <<dvars, ivars, svars, evars, bvars>>

\* What the automation engine leaves alone.
NotAutomation == <<dvars, ivars, svars, cvars, bvars>>

\* What a step of the engine that plays no part in Engine.Close leaves alone.
NotEngine == <<NotAutomation, xvars>>

Range(s) == {s[i] : i \in 1..Len(s)}

\* Every ordering of a finite set as a sequence (rows come back in no fixed order).
Orderings(S) ==
    {s \in [1..Cardinality(S) -> S] : \A i, j \in 1..Cardinality(S) : i # j => s[i] # s[j]}

---------------------------------------------------------------------------
(* Store operations                                                        *)

\* BroadcastMessagePropUpdate(conversation, uuid, "status", value).
BroadcastMessagePropUpdate(m, st) ==
    propUpdates' = [uuid |-> m, value |-> st, n |-> 1 - propUpdates.n]

\* UpdateMessageStatus, when the store write succeeds: the status is
\* written, then the update is broadcast.
UpdateMessageStatus(m, st, site) ==
    /\ status' = [status EXCEPT ![m] = st]
    /\ lastWrite' = [lastWrite EXCEPT ![m] = [site |-> site, from |-> status[m]]]
    /\ BroadcastMessagePropUpdate(m, st)

\* An UpdateMessageStatus that broadcasts although the write failed.
UpdateMessageStatusErrBroadcasts(m, st) ==
    /\ UNCHANGED <<status, lastWrite>>
    /\ BroadcastMessagePropUpdate(m, st)

\* UpdateMessageStatus, when the store write fails: it returns the error
\* before the broadcast.
UpdateMessageStatusErr(m, st) ==
    /\ UNCHANGED <<status, lastWrite, propUpdates>>

\* The get-pending-messages query (fetch-pending-outgoing-messages): the
\* outgoing messages with status pending whose id is not excluded.
GetPendingMessages(excluded) ==
    {m \in AllMsgs : /\ Type(m) = MessageOutgoing
                     /\ status[m] = MessageStatusPending
                     /\ m \notin excluded}

\* getOutgoingProcessingMessageIDs: the keys of the in-flight map.
getOutgoingProcessingMessageIDs == inflight

\* An UpdateConversationFirstReplyAt that overwrites the stamp.
UpdateConversationFirstReplyAtAlways(m) ==
    firstReplyAt' = m

\* UpdateConversationFirstReplyAt: stamps the first reply once.
UpdateConversationFirstReplyAt(m) ==
    firstReplyAt' = IF firstReplyAt = 0 THEN m ELSE firstReplyAt

---------------------------------------------------------------------------
(* MarkMessageAsPending                                                    *)

\* A retry that only resets messages whose status is failed.
MarkMessageAsPendingOnlyFailed(m) ==
    /\ UpdateMessageStatus(m, IF status[m] = MessageStatusFailed
                               THEN MessageStatusPending ELSE status[m], "reset")
    /\ UNCHANGED <<firstReplyAt, firstSent, inflight, outQ, spc, scanIDs, pendingMessages,
                   wpc, wmsg, werr>>
    /\ UNCHANGED NotDispatch

MarkMessageAsPending(m) ==
    /\ UpdateMessageStatus(m, MessageStatusPending, "reset")
    /\ UNCHANGED <<firstReplyAt, firstSent, inflight, outQ, spc, scanIDs, pendingMessages,
                   wpc, wmsg, werr>>
    /\ UNCHANGED NotDispatch

\* The store write fails: the call returns an error and nothing changes.
MarkMessageAsPendingErr(m) ==
    /\ UpdateMessageStatusErr(m, MessageStatusPending)
    /\ UNCHANGED <<firstReplyAt, firstSent, inflight, outQ, spc, scanIDs, pendingMessages,
                   wpc, wmsg, werr>>
    /\ UNCHANGED NotDispatch

---------------------------------------------------------------------------
(* ListenAndDispatchMessages: the scan loop                                *)

\* case <-dbScanner.C: read the ids being processed.
ScanTick ==
    /\ ~panicked
    /\ spc = "tick"
    /\ scanIDs' = getOutgoingProcessingMessageIDs
    /\ spc' = "query"
    /\ UNCHANGED <<status, lastWrite, propUpdates, firstReplyAt, firstSent, inflight, outQ,
                   pendingMessages, wpc, wmsg, werr>>
    /\ UNCHANGED NotDispatch

\* GetPendingMessages.Select succeeds.
ScanQuery ==
    /\ ~panicked
    /\ spc = "query"
    /\ pendingMessages' \in Orderings(GetPendingMessages(scanIDs))
    /\ spc' = "loop"
    /\ UNCHANGED <<status, lastWrite, propUpdates, firstReplyAt, firstSent, inflight, outQ, scanIDs,
                   wpc, wmsg, werr>>
    /\ UNCHANGED NotDispatch

\* GetPendingMessages.Select fails: continue with the next tick.
ScanQueryErr ==
    /\ spc = "query"
    /\ spc' = "tick"
    /\ scanIDs' = {}
    /\ UNCHANGED <<status, lastWrite, propUpdates, firstReplyAt, firstSent, inflight, outQ,
                   pendingMessages, wpc, wmsg, werr>>
    /\ UNCHANGED NotDispatch

\* The range loop is over: back to the select.
ScanLoopEnd ==
    /\ ~panicked
    /\ spc = "loop"
    /\ pendingMessages = <<>>
    /\ spc' = "tick"
    /\ scanIDs' = {}
    /\ UNCHANGED <<status, lastWrite, propUpdates, firstReplyAt, firstSent, inflight, outQ,
                   pendingMessages, wpc, wmsg, werr>>
    /\ UNCHANGED NotDispatch

\* inboxStore.Get fails for the message: continue.
ScanInboxErr ==
    /\ spc = "loop"
    /\ pendingMessages # <<>>
    /\ pendingMessages' = Tail(pendingMessages)
    /\ UNCHANGED <<status, lastWrite, propUpdates, firstReplyAt, firstSent, inflight, outQ, spc, scanIDs,
                   wpc, wmsg, werr>>
    /\ UNCHANGED NotDispatch

\* RenderContentInTemplate fails: it writes status failed, then continue.
ScanRenderErr ==
    /\ spc = "loop"
    /\ pendingMessages # <<>>
    /\ UpdateMessageStatus(Head(pendingMessages), MessageStatusFailed, "render")
    /\ pendingMessages' = Tail(pendingMessages)
    /\ UNCHANGED <<firstReplyAt, firstSent, inflight, outQ, spc, scanIDs, wpc, wmsg, werr>>
    /\ UNCHANGED NotDispatch

\* RenderContentInTemplate fails and its status write fails too.
ScanRenderErrNoWrite ==
    /\ spc = "loop"
    /\ pendingMessages # <<>>
    /\ UpdateMessageStatusErr(Head(pendingMessages), MessageStatusFailed)
    /\ pendingMessages' = Tail(pendingMessages)
    /\ UNCHANGED <<firstReplyAt, firstSent, inflight, outQ, spc, scanIDs, wpc, wmsg, werr>>
    /\ UNCHANGED NotDispatch

\* Inbox and rendering succeed: outgoingProcessingMessages.Store(message.ID).
ScanStore ==
    /\ ~panicked
    /\ spc = "loop"
    /\ pendingMessages # <<>>
    /\ inflight' = inflight \cup {Head(pendingMessages)}
    /\ spc' = "push"
    /\ UNCHANGED <<status, lastWrite, propUpdates, firstReplyAt, firstSent, outQ, scanIDs,
                   pendingMessages, wpc, wmsg, werr>>
    /\ UNCHANGED NotDispatch

\* m.outgoingMessageQueue <- message (blocks while the queue is full; on a
\* closed queue the send panics instead, see ScanPushClosed).
ScanPush ==
    /\ ~panicked
    /\ spc = "push"
    /\ ~outClosed
    /\ Len(outQ) < OutCap
    /\ outQ' = Append(outQ, Head(pendingMessages))
    /\ pendingMessages' = Tail(pendingMessages)
    /\ spc' = "loop"
    /\ UNCHANGED <<status, lastWrite, propUpdates, firstReplyAt, firstSent, inflight, scanIDs,
                   wpc, wmsg, werr>>
    /\ UNCHANGED NotDispatch

---------------------------------------------------------------------------
(* MessageDispatchWorker                                                   *)

\* A worker that leaves the message pending when Send fails.
NewStatusRetry(w) ==
    IF werr[w] = "none" THEN MessageStatusSent ELSE MessageStatusPending

\* newStatus of the worker: sent unless Send returned an error.
NewStatus(w) ==
    IF werr[w] = "none" THEN MessageStatusSent ELSE MessageStatusFailed

\* case message, ok := <-m.outgoingMessageQueue
WorkerRecv(w) ==
    /\ ~panicked
    /\ wpc[w] = "recv"
    /\ outQ # <<>>
    /\ wmsg' = [wmsg EXCEPT ![w] = Head(outQ)]
    /\ outQ' = Tail(outQ)
    /\ wpc' = [wpc EXCEPT ![w] = "inbox"]
    /\ UNCHANGED <<status, lastWrite, propUpdates, firstReplyAt, firstSent, inflight, spc, scanIDs,
                   pendingMessages, werr>>
    /\ UNCHANGED NotDispatch

\* inboxStore.Get succeeds.
WorkerInboxOk(w) ==
    /\ ~panicked
    /\ wpc[w] = "inbox"
    /\ wpc' = [wpc EXCEPT ![w] = "attach"]
    /\ UNCHANGED <<status, lastWrite, propUpdates, firstReplyAt, firstSent, inflight, outQ, spc, scanIDs,
                   pendingMessages, wmsg, werr>>
    /\ UNCHANGED NotDispatch

\* m.outgoingProcessingMessages.Delete(message.ID)
outgoingProcessingMessagesDeleteNothing(m) == inflight
outgoingProcessingMessagesDelete(m) == inflight \ {m}

\* A failure before Send (site: "inbox" or "attach"): the entry is deleted
\* first, the status is written afterwards.
WorkerFailDelete(w, site) ==
    /\ inflight' = outgoingProcessingMessagesDelete(wmsg[w])
    /\ werr' = [werr EXCEPT ![w] = site]
    /\ wpc' = [wpc EXCEPT ![w] = "failstatus"]
    /\ UNCHANGED <<status, lastWrite, propUpdates, firstReplyAt, firstSent, outQ, spc, scanIDs,
                   pendingMessages, wmsg>>
    /\ UNCHANGED NotDispatch

\* inboxStore.Get fails: outgoingProcessingMessages.Delete(message.ID).
WorkerInboxErr(w) ==
    /\ ~panicked
    /\ wpc[w] = "inbox"
    /\ WorkerFailDelete(w, "inbox")

\* attachAttachmentsToMessage succeeds.
WorkerAttachOk(w) ==
    /\ ~panicked
    /\ wpc[w] = "attach"
    /\ wpc' = [wpc EXCEPT ![w] = "send"]
    /\ UNCHANGED <<status, lastWrite, propUpdates, firstReplyAt, firstSent, inflight, outQ, spc, scanIDs,
                   pendingMessages, wmsg, werr>>
    /\ UNCHANGED NotDispatch

\* attachAttachmentsToMessage fails: Delete(message.ID).
WorkerAttachErr(w) ==
    /\ ~panicked
    /\ wpc[w] = "attach"
    /\ WorkerFailDelete(w, "attach")

\* The worker is done with its message and goes back to the select.
WorkerDone(w) ==
    /\ wpc' = [wpc EXCEPT ![w] = "recv"]
    /\ wmsg' = [wmsg EXCEPT ![w] = 0]
    /\ werr' = [werr EXCEPT ![w] = "none"]

\* After the early Delete: UpdateMessageStatus(failed), then continue.
WorkerFailStatus(w) ==
    /\ ~panicked
    /\ wpc[w] = "failstatus"
    /\ UpdateMessageStatus(wmsg[w], MessageStatusFailed, werr[w])
    /\ WorkerDone(w)
    /\ UNCHANGED <<firstReplyAt, firstSent, inflight, outQ, spc, scanIDs, pendingMessages>>
    /\ UNCHANGED NotDispatch

\* The same, when the store write fails (the error is ignored).
WorkerFailStatusErr(w) ==
    /\ ~panicked
    /\ wpc[w] = "failstatus"
    /\ UpdateMessageStatusErr(wmsg[w], MessageStatusFailed)
    /\ WorkerDone(w)
    /\ UNCHANGED <<firstReplyAt, firstSent, inflight, outQ, spc, scanIDs, pendingMessages>>
    /\ UNCHANGED NotDispatch

\* err = inbox.Send(message)
WorkerSend(w, err) ==
    /\ ~panicked
    /\ wpc[w] = "send"
    /\ werr' = [werr EXCEPT ![w] = err]
    /\ firstSent' = IF err = "none" /\ firstSent = 0 THEN wmsg[w] ELSE firstSent
    /\ wpc' = [wpc EXCEPT ![w] = "status"]
    /\ UNCHANGED <<status, lastWrite, propUpdates, firstReplyAt, inflight, outQ, spc, scanIDs,
                   pendingMessages, wmsg>>
    /\ UNCHANGED NotDispatch

\* Where the worker goes after UpdateMessageStatus(newStatus).
AfterStatus(w) ==
    IF NewStatus(w) = MessageStatusSent THEN "firstreply" ELSE "delete"

\* m.UpdateMessageStatus(message.UUID, newStatus)
WorkerStatus(w) ==
    /\ ~panicked
    /\ wpc[w] = "status"
    /\ UpdateMessageStatus(wmsg[w], NewStatus(w),
                           IF werr[w] = "none" THEN "sent" ELSE werr[w])
    /\ wpc' = [wpc EXCEPT ![w] = AfterStatus(w)]
    /\ UNCHANGED <<firstReplyAt, firstSent, inflight, outQ, spc, scanIDs, pendingMessages,
                   wmsg, werr>>
    /\ UNCHANGED NotDispatch

\* The same, when the store write fails (the error is ignored).
WorkerStatusErr(w) ==
    /\ ~panicked
    /\ wpc[w] = "status"
    /\ UpdateMessageStatusErr(wmsg[w], NewStatus(w))
    /\ wpc' = [wpc EXCEPT ![w] = AfterStatus(w)]
    /\ UNCHANGED <<firstReplyAt, firstSent, inflight, outQ, spc, scanIDs, pendingMessages,
                   wmsg, werr>>
    /\ UNCHANGED NotDispatch

\* if newStatus == MessageStatusSent { UpdateConversationFirstReplyAt(...) }
WorkerFirstReply(w) ==
    /\ ~panicked
    /\ wpc[w] = "firstreply"
    /\ UpdateConversationFirstReplyAt(wmsg[w])
    /\ wpc' = [wpc EXCEPT ![w] = "delete"]
    /\ UNCHANGED <<status, lastWrite, propUpdates, firstSent, inflight, outQ, spc, scanIDs,
                   pendingMessages, wmsg, werr>>
    /\ UNCHANGED NotDispatch

\* m.outgoingProcessingMessages.Delete(message.ID), end of the iteration.
WorkerDelete(w) ==
    /\ ~panicked
    /\ wpc[w] = "delete"
    /\ inflight' = outgoingProcessingMessagesDelete(wmsg[w])
    /\ WorkerDone(w)
    /\ UNCHANGED <<status, lastWrite, propUpdates, firstReplyAt, firstSent, outQ, spc, scanIDs,
                   pendingMessages>>
    /\ UNCHANGED NotDispatch

---------------------------------------------------------------------------
(* Cancellation and closed queues, as the scanner and the workers see them *)

\* case <-ctx.Done(): return (the scanner is in its select).
ScanCtxDone ==
    /\ ~panicked
    /\ spc = "tick"
    /\ cancelled
    /\ spc' = "exited"
    /\ UNCHANGED <<status, lastWrite, propUpdates, firstReplyAt, firstSent, inflight, outQ, scanIDs,
                   pendingMessages, wpc, wmsg, werr>>
    /\ UNCHANGED NotDispatch

\* m.outgoingMessageQueue <- message on a closed channel: the send panics.
ScanPushClosed ==
    /\ ~panicked
    /\ spc = "push"
    /\ outClosed
    /\ panicked' = TRUE
    /\ UNCHANGED <<closed, mu, cpc, outClosed, inClosed, cancelled>>
    /\ UNCHANGED <<dvars, ivars, NotPipeline>>

\* case <-ctx.Done(): return (the worker is in its select).
WorkerCtxDone(w) ==
    /\ ~panicked
    /\ wpc[w] = "recv"
    /\ cancelled
    /\ wpc' = [wpc EXCEPT ![w] = "exited"]
    /\ UNCHANGED <<status, lastWrite, propUpdates, firstReplyAt, firstSent, inflight, outQ, spc, scanIDs,
                   pendingMessages, wmsg, werr>>
    /\ UNCHANGED NotDispatch

\* message, ok := <-m.outgoingMessageQueue with ok false: closed and drained.
WorkerQueueClosed(w) ==
    /\ ~panicked
    /\ wpc[w] = "recv"
    /\ outClosed
    /\ outQ = <<>>
    /\ wpc' = [wpc EXCEPT ![w] = "exited"]
    /\ UNCHANGED <<status, lastWrite, propUpdates, firstReplyAt, firstSent, inflight, outQ, spc, scanIDs,
                   pendingMessages, wmsg, werr>>
    /\ UNCHANGED NotDispatch

\* The shared context is cancelled.
CtxCancel ==
    /\ ~panicked
    /\ ~cancelled
    /\ cancelled' = TRUE
    /\ UNCHANGED <<closed, mu, cpc, outClosed, inClosed, panicked>>
    /\ UNCHANGED <<dvars, ivars, NotPipeline>>

---------------------------------------------------------------------------
(* The store of incoming messages and conversations                        *)

\* An incoming message: its source id, its In-Reply-To (0: none) and its
\* References, which name earlier source ids.
Inputs ==
    {in \in [sid : Sids, irt : 0..NumSids, refs : SUBSET Sids] :
        /\ in.irt < in.sid
        /\ \A r \in in.refs : r < in.sid /\ r # in.irt
        /\ Cardinality(in.refs) <= 1}

\* No message in hand.
NoInput == [sid |-> -1, irt |-> 0, refs |-> {}]

\* An incoming message that lacks a required field: it has no source id.
MalformedInputs == {[sid |-> 0, irt |-> 0, refs |-> {}]}

\* The message-exists-by-source-id query: the conversation ids of the
\* stored messages whose source id is among ids (QueryRow scans one of them).
MessageExistsBySourceID(ids) ==
    {messages[i].conv : i \in {j \in 1..Len(messages) : messages[j].sid \in ids}}

\* findConversationID: the ids it can return; none is ErrConversationNotFound.
findConversationID(ids) ==
    IF ids = {} THEN {} ELSE MessageExistsBySourceID(ids)

\* sourceIDs of findOrCreateConversation that leave In-Reply-To out.
SourceIDsReferencesOnly(in) == in.refs

\* sourceIDs of findOrCreateConversation: References, plus In-Reply-To.
SourceIDs(in) ==
    in.refs \cup (IF in.irt # 0 THEN {in.irt} ELSE {})

\* Where a store call of processIncomingMessage can fail.
FailPoints ==
    {"none", "upsert", "exists", "find", "uuid", "create", "insert", "participant"}

\* findOrCreateConversation: the results it can give for in when the store
\* fails at `fail`: the conversation, whether it is new, whether it erred.
findOrCreateConversation(in, fail) ==
    LET found == findConversationID(SourceIDs(in)) IN
    IF fail = "find"
    THEN {[conv |-> 0, new |-> FALSE, err |-> TRUE]}
    ELSE IF found = {}
    THEN IF fail = "create"
         THEN {[conv |-> 0, new |-> TRUE, err |-> TRUE]}
         ELSE {[conv |-> Len(conversations) + 1, new |-> TRUE, err |-> FALSE]}
    ELSE IF fail = "uuid"
         THEN {[conv |-> c, new |-> FALSE, err |-> TRUE] : c \in found}
         ELSE {[conv |-> c, new |-> FALSE, err |-> FALSE] : c \in found}

\* InsertMessage of an incoming message: the message is stored unless the
\* insert fails; a failure to add the participant comes after the insert.
InsertMessage(in, conv, fail) ==
    messages' = IF fail = "insert"
                THEN messages
                ELSE Append(messages, [sid |-> in.sid, conv |-> conv])

\* processIncomingMessage(in), with the store failing at `fail`.
processIncomingMessage(in, fail) ==
    IF fail \in {"upsert", "exists"}
    THEN /\ iret' = "err"
         /\ UNCHANGED <<messages, conversations, newConvTriggers>>
    ELSE IF findConversationID({in.sid}) # {}
    THEN \* This message already exists: return nil.
         /\ iret' = "nil"
         /\ UNCHANGED <<messages, conversations, newConvTriggers>>
    ELSE \E r \in findOrCreateConversation(in, fail) :
         /\ conversations' = IF r.new /\ ~r.err
                             THEN Append(conversations, [by |-> in.sid])
                             ELSE conversations
         /\ IF r.err
            THEN /\ iret' = "err"
                 /\ UNCHANGED <<messages, newConvTriggers>>
            ELSE /\ InsertMessage(in, r.conv, fail)
                 /\ iret' = IF fail \in {"insert", "participant"} THEN "err" ELSE "nil"
                 /\ newConvTriggers' =
                        IF r.new /\ fail \notin {"insert", "participant"}
                        THEN Append(newConvTriggers, r.conv)
                        ELSE newConvTriggers

---------------------------------------------------------------------------
(* EnqueueIncoming                                                         *)

\* A caller calls EnqueueIncoming and m.closedMu.Lock() returns (a caller
\* still blocked in Lock has had no effect yet).
EnqueueLock(c) ==
    /\ ~panicked
    /\ epc[c] = "idle"
    /\ Len(accepted) < MaxEnqueue
    /\ mu = 0
    /\ mu' = c
    /\ epc' = [epc EXCEPT ![c] = "locked"]
    /\ UNCHANGED <<closed, cpc, outClosed, inClosed, cancelled, panicked>>
    /\ UNCHANGED <<inQ, eres, ipc, ihand, iret, messages, conversations,
                   newConvTriggers, accepted, nproc>>
    /\ UNCHANGED <<dvars, NotPipeline>>

\* if m.closed, seen as never set.
SeesClosedNever == FALSE

\* if m.closed
SeesClosed == closed

\* The send case of the select is ready, with the capacity off by one.
QueueHasRoomOffByOne == Len(inQ) <= InCap

\* The send case of the select is ready: the channel's buffer has room.
QueueHasRoom == Len(inQ) < InCap

\* The body of EnqueueIncoming(in) under the lock, up to the deferred
\* Unlock (the message plays no part before the send, so it is drawn here).
EnqueueSend(c, in) ==
    /\ ~panicked
    /\ epc[c] = "locked"
    /\ epc' = [epc EXCEPT ![c] = "idle"]
    /\ mu' = 0
    /\ IF SeesClosed
       THEN /\ eres' = [eres EXCEPT ![c] = "closed"]
            /\ UNCHANGED <<inQ, accepted, panicked>>
       ELSE IF inClosed
       THEN \* a send on a closed channel panics
            /\ panicked' = TRUE
            /\ UNCHANGED <<inQ, accepted, eres>>
       ELSE IF QueueHasRoom
       THEN /\ inQ' = Append(inQ, in)
            /\ accepted' = Append(accepted, in)
            /\ eres' = [eres EXCEPT ![c] = "ok"]
            /\ UNCHANGED panicked
       ELSE /\ eres' = [eres EXCEPT ![c] = "full"]
            /\ UNCHANGED <<inQ, accepted, panicked>>
    /\ UNCHANGED <<closed, cpc, outClosed, inClosed, cancelled>>
    /\ UNCHANGED <<ipc, ihand, iret, messages, conversations, newConvTriggers, nproc>>
    /\ UNCHANGED <<dvars, NotPipeline>>

---------------------------------------------------------------------------
(* IncomingMessageWorker                                                   *)

\* case msg, ok := <-m.incomingMessageQueue
IncomingRecv ==
    /\ ~panicked
    /\ ipc = "recv"
    /\ inQ # <<>>
    /\ ihand' = Head(inQ)
    /\ inQ' = Tail(inQ)
    /\ ipc' = "process"
    /\ UNCHANGED <<epc, eres, iret, messages, conversations,
                   newConvTriggers, accepted, nproc>>
    /\ UNCHANGED <<dvars, svars, NotPipeline>>

\* A worker that returns when processIncomingMessage returns an error.
AfterProcessErrReturns(ret) == IF ret = "err" THEN "exited" ELSE "recv"

\* Whatever processIncomingMessage returned, the next iteration of the loop.
AfterProcess(ret) == "recv"

\* m.processIncomingMessage(msg); an error is logged and the loop goes on.
IncomingProcess ==
    /\ ~panicked
    /\ ipc = "process"
    /\ \E fail \in FailPoints : processIncomingMessage(ihand, fail)
    /\ nproc' = nproc + 1
    /\ ihand' = NoInput
    /\ ipc' = AfterProcess(iret')
    /\ UNCHANGED <<inQ, epc, eres, accepted>>
    /\ UNCHANGED <<dvars, svars, NotPipeline>>

\* case <-ctx.Done(): return
IncomingCtxDone ==
    /\ ~panicked
    /\ ipc = "recv"
    /\ cancelled
    /\ ipc' = "exited"
    /\ UNCHANGED <<inQ, epc, eres, ihand, iret, messages, conversations,
                   newConvTriggers, accepted, nproc>>
    /\ UNCHANGED <<dvars, svars, NotPipeline>>

\* msg, ok := <-m.incomingMessageQueue with ok false: closed and drained.
IncomingQueueClosed ==
    /\ ~panicked
    /\ ipc = "recv"
    /\ inClosed
    /\ inQ = <<>>
    /\ ipc' = "exited"
    /\ UNCHANGED <<inQ, epc, eres, ihand, iret, messages, conversations,
                   newConvTriggers, accepted, nproc>>
    /\ UNCHANGED <<dvars, svars, NotPipeline>>

---------------------------------------------------------------------------
(* Manager.Close                                                           *)

\* m.closedMu.Lock(); m.closed = true
CloseLock ==
    /\ ~panicked
    /\ cpc \in {"idle", "returned"}
    /\ mu = 0
    /\ mu' = -1
    /\ closed' = TRUE
    /\ cpc' = "locked"
    /\ UNCHANGED <<outClosed, inClosed, cancelled, panicked>>
    /\ UNCHANGED <<dvars, ivars, NotPipeline>>

\* close(m.outgoingMessageQueue): closing a closed channel panics.
CloseOutgoing ==
    /\ ~panicked
    /\ cpc = "locked"
    /\ IF outClosed
       THEN panicked' = TRUE /\ UNCHANGED <<outClosed, cpc>>
       ELSE outClosed' = TRUE /\ cpc' = "outclosed" /\ UNCHANGED panicked
    /\ UNCHANGED <<closed, mu, inClosed, cancelled>>
    /\ UNCHANGED <<dvars, ivars, NotPipeline>>

\* close(m.incomingMessageQueue)
CloseIncoming ==
    /\ ~panicked
    /\ cpc = "outclosed"
    /\ IF inClosed
       THEN panicked' = TRUE /\ UNCHANGED <<inClosed, cpc>>
       ELSE inClosed' = TRUE /\ cpc' = "wait" /\ UNCHANGED panicked
    /\ UNCHANGED <<closed, mu, outClosed, cancelled>>
    /\ UNCHANGED <<dvars, ivars, NotPipeline>>

\* A Close that does not wait for the workers.
WaitGroupDoneNoWait == TRUE

\* m.wg.Wait() can return: every worker goroutine has run wg.Done().
WaitGroupDone ==
    /\ ipc = "exited"
    /\ \A w \in Workers : wpc[w] = "exited"

\* m.wg.Wait() returns, then the deferred m.closedMu.Unlock().
CloseWait ==
    /\ ~panicked
    /\ cpc = "wait"
    /\ WaitGroupDone
    /\ cpc' = "returned"
    /\ mu' = 0
    /\ UNCHANGED <<closed, outClosed, inClosed, cancelled, panicked>>
    /\ UNCHANGED <<dvars, ivars, NotPipeline>>

---------------------------------------------------------------------------
(* InsertMessage, as agents' replies and activity records call it          *)

\* m.q.InsertMessage.QueryRow(...).Scan(&message.ID, ...): the row is
\* stored and gets the next id.
InsertExec(c) ==
    /\ inspc[c] = "idle"
    /\ ninserted < MaxInserts
    /\ ninserted' = ninserted + 1
    /\ insmsg' = [insmsg EXCEPT ![c] = ninserted + 1]
    /\ inspc' = [inspc EXCEPT ![c] = "participant"]
    /\ UNCHANGED <<lastMessage, newMessages>>
    /\ UNCHANGED NotInsert

\* The insert fails: InsertMessage returns the error, nothing was stored.
InsertExecErr(c) ==
    /\ inspc[c] = "idle"
    /\ UNCHANGED cvars
    /\ UNCHANGED NotInsert

\* m.AddConversationParticipant succeeds.
InsertParticipant(c) ==
    /\ inspc[c] = "participant"
    /\ inspc' = [inspc EXCEPT ![c] = "lastmsg"]
    /\ UNCHANGED <<insmsg, ninserted, lastMessage, newMessages>>
    /\ UNCHANGED NotInsert

\* m.AddConversationParticipant fails: InsertMessage returns the error.
InsertParticipantErr(c) ==
    /\ inspc[c] = "participant"
    /\ inspc' = [inspc EXCEPT ![c] = "idle"]
    /\ insmsg' = [insmsg EXCEPT ![c] = 0]
    /\ UNCHANGED <<ninserted, lastMessage, newMessages>>
    /\ UNCHANGED NotInsert

\* UpdateConversationLastMessage(uuid, summary of the message, created at):
\* the conversation's summary becomes this message's.
UpdateConversationLastMessage(m) ==
    lastMessage' = m

\* m.UpdateConversationLastMessage(0, message.ConversationUUID, ...)
InsertLastMessage(c) ==
    /\ inspc[c] = "lastmsg"
    /\ UpdateConversationLastMessage(insmsg[c])
    /\ inspc' = [inspc EXCEPT ![c] = "broadcast"]
    /\ UNCHANGED <<insmsg, ninserted, newMessages>>
    /\ UNCHANGED NotInsert

\* BroadcastNewConversationMessage(conversation, content, uuid, ...)
BroadcastNewConversationMessage(m) ==
    newMessages' = [uuid |-> m, n |-> 1 - newMessages.n]

\* m.BroadcastNewConversationMessage(...); return nil
InsertBroadcast(c) ==
    /\ inspc[c] = "broadcast"
    /\ BroadcastNewConversationMessage(insmsg[c])
    /\ inspc' = [inspc EXCEPT ![c] = "idle"]
    /\ insmsg' = [insmsg EXCEPT ![c] = 0]
    /\ UNCHANGED <<ninserted, lastMessage>>
    /\ UNCHANGED NotInsert

---------------------------------------------------------------------------
(* Automation engine: the rule snapshot and its reload                     *)

\* The type field of a rule id that has no record in the store.
RuleAbsent == "absent"

\* The get-enabled-rules query and the flattening of queryRules: every
\* enabled rule record whose serialized rules decode, tagged with the type
\* of its record; a record that does not decode is skipped.
queryRules ==
    {[id |-> r, type |-> ruleType[r]] :
        r \in {x \in Rules : ruleType[x] # RuleAbsent /\ ruleEnabled[x] /\ ruleDecodes[x]}}

\* A rule call that reloads although its store write failed.
AfterExecErrReloads == "reload"

\* A rule call whose store write failed: return envelope.NewError(...).
AfterExecErr == "idle"

\* A ToggleRule that returns without reloading.
AfterToggleExecNoReload == "idle"

\* ToggleRule after its store write: e.ReloadRules().
AfterToggleExec == "reload"

\* ToggleRule(id): e.q.ToggleRule.Exec(id) succeeds and flips the record.
ToggleExec(c, r) ==
    /\ tpc[c] = "idle"
    /\ ruleEnabled' = [ruleEnabled EXCEPT ![r] = ~ruleEnabled[r]]
    /\ trule' = [trule EXCEPT ![c] = IF AfterToggleExec = "idle" THEN 0 ELSE r]
    /\ tpc' = [tpc EXCEPT ![c] = AfterToggleExec]
    /\ UNCHANGED <<ruleType, ruleDecodes, rules, rulesMu, tlocal, tres>>
    /\ UNCHANGED <<qvars, NotEngine>>

\* The store write fails: ToggleRule returns the error, without a reload.
ToggleExecErr(c, r) ==
    /\ tpc[c] = "idle"
    /\ tres' = [tres EXCEPT ![c] = "err"]
    /\ tpc' = [tpc EXCEPT ![c] = AfterExecErr]
    /\ UNCHANGED <<ruleType, ruleEnabled, ruleDecodes, rules, rulesMu, trule, tlocal>>
    /\ UNCHANGED <<qvars, NotEngine>>

\* A rule call's store write succeeded: the call goes on to e.ReloadRules().
AfterExec(c, r) ==
    /\ trule' = [trule EXCEPT ![c] = r]
    /\ tpc' = [tpc EXCEPT ![c] = "reload"]
    /\ UNCHANGED <<rules, rulesMu, tlocal, tres>>
    /\ UNCHANGED <<qvars, NotEngine>>

\* A rule call's store write failed: the call returns the error.
ExecErr(c) ==
    /\ tpc[c] = "idle"
    /\ tres' = [tres EXCEPT ![c] = "err"]
    /\ tpc' = [tpc EXCEPT ![c] = AfterExecErr]
    /\ UNCHANGED <<ruleType, ruleEnabled, ruleDecodes, rules, rulesMu, trule, tlocal>>
    /\ UNCHANGED <<qvars, NotEngine>>

\* CreateRule(rule): e.q.InsertRule.Exec stores a record of type t, enabled,
\* whose serialized rules decode or not (d).
CreateExec(c, r, t, d) ==
    /\ tpc[c] = "idle"
    /\ ruleType[r] = RuleAbsent
    /\ ruleType' = [ruleType EXCEPT ![r] = t]
    /\ ruleEnabled' = [ruleEnabled EXCEPT ![r] = TRUE]
    /\ ruleDecodes' = [ruleDecodes EXCEPT ![r] = d]
    /\ AfterExec(c, r)

CreateExecErr(c) == ExecErr(c)

\* UpdateRule(id, rule): e.q.UpdateRule.Exec rewrites the type and the
\* serialized rules of the record; with no such record it changes nothing.
UpdateExec(c, r, t, d) ==
    /\ tpc[c] = "idle"
    /\ ruleType' = IF ruleType[r] = RuleAbsent THEN ruleType
                   ELSE [ruleType EXCEPT ![r] = t]
    /\ ruleDecodes' = IF ruleType[r] = RuleAbsent THEN ruleDecodes
                      ELSE [ruleDecodes EXCEPT ![r] = d]
    /\ UNCHANGED ruleEnabled
    /\ AfterExec(c, r)

UpdateExecErr(c) == ExecErr(c)

\* DeleteRule(id): e.q.DeleteRule.Exec removes the record.
DeleteExec(c, r) ==
    /\ tpc[c] = "idle"
    /\ ruleType' = [ruleType EXCEPT ![r] = RuleAbsent]
    /\ ruleEnabled' = [ruleEnabled EXCEPT ![r] = TRUE]
    /\ ruleDecodes' = [ruleDecodes EXCEPT ![r] = TRUE]
    /\ AfterExec(c, r)

DeleteExecErr(c) == ExecErr(c)

\* A write lock granted while another writer holds it.
LockReadyAlways == TRUE

\* e.rulesMu.Lock() returns: nobody holds the lock.
LockReady == rulesMu = 0

\* ReloadRules: e.rulesMu.Lock()
ReloadLock(c) ==
    /\ tpc[c] = "reload"
    /\ LockReady
    /\ rulesMu' = c
    /\ tpc' = [tpc EXCEPT ![c] = "query"]
    /\ UNCHANGED <<ruleType, ruleEnabled, ruleDecodes, rules, trule, tlocal, tres>>
    /\ UNCHANGED <<qvars, NotEngine>>

\* e.queryRules() reads the store.
ReloadQuery(c) ==
    /\ tpc[c] = "query"
    /\ tlocal' = [tlocal EXCEPT ![c] = queryRules]
    /\ tpc' = [tpc EXCEPT ![c] = "assign"]
    /\ UNCHANGED <<ruleType, ruleEnabled, ruleDecodes, rules, rulesMu, trule, tres>>
    /\ UNCHANGED <<qvars, NotEngine>>

\* A failed query that hands back the rules loaded before.
queryRulesErrKeepsRules == rules

\* queryRules when e.q.GetEnabledRules.Select fails: filteredRules, still nil.
queryRulesErr == {}

\* e.queryRules() when the query fails: it returns no rule.
ReloadQueryErr(c) ==
    /\ tpc[c] = "query"
    /\ tlocal' = [tlocal EXCEPT ![c] = queryRulesErr]
    /\ tpc' = [tpc EXCEPT ![c] = "assign"]
    /\ UNCHANGED <<ruleType, ruleEnabled, ruleDecodes, rules, rulesMu, trule, tres>>
    /\ UNCHANGED <<qvars, NotEngine>>

\* e.rules = ..., the deferred Unlock, and ToggleRule returns nil.
ReloadAssign(c) ==
    /\ tpc[c] = "assign"
    /\ rules' = tlocal[c]
    /\ rulesMu' = 0
    /\ tpc' = [tpc EXCEPT ![c] = "idle"]
    /\ trule' = [trule EXCEPT ![c] = 0]
    /\ tlocal' = [tlocal EXCEPT ![c] = {}]
    /\ tres' = [tres EXCEPT ![c] = "nil"]
    /\ UNCHANGED <<ruleType, ruleEnabled, ruleDecodes>>
    /\ UNCHANGED <<qvars, NotEngine>>

\* A read lock taken without regard to a writer.
RLockReadyAlways == TRUE

\* e.rulesMu.RLock() returns: no writer holds the lock.
RLockReady == rulesMu = 0

\* What a reader finds in e.rules: the snapshot; a read that races with the
\* writer holding the lock can find any mixture of the old and the new set.
ReadRules ==
    IF rulesMu = 0 THEN {rules} ELSE SUBSET (rules \cup tlocal[rulesMu])

\* A filter that lets every type through.
TypeMatchesAny(rule, ruleType_) == TRUE

\* if rule.Type == ruleType
TypeMatches(rule, ruleType_) == rule.type = ruleType_

\* filterRulesByType, on what the reader found in e.rules.
filterRulesByType(found, ruleType_) ==
    {rule \in found : TypeMatches(rule, ruleType_)}

---------------------------------------------------------------------------
(* Automation engine: triggers, Engine.Run and the workers                 *)

\* The send case of the select, with the capacity off by one.
TriggerQueueHasRoomOffByOne(q) == Len(q) <= TrigCap

\* The send case of the select is ready: the channel's buffer has room.
TriggerQueueHasRoom(q) == Len(q) < TrigCap

\* e.closedMu.RLock() returns: Engine.Close does not hold the lock.
ClosedMuRLockReady == ecpc \in {"idle", "returned", "returnedclosed"}

\* if e.closed, seen as never set.
SeesEngineClosedNever == FALSE

\* if e.closed
SeesEngineClosed == eclosed

\* EvaluateNewConversationRules(uuid): a non-blocking send, under the read
\* lock of closedMu; with the queue full the event is dropped.
EvaluateNewConversationRules(conv) ==
    /\ ~epanicked
    /\ ClosedMuRLockReady
    /\ IF SeesEngineClosed
       THEN UNCHANGED <<newConversationQ, epanicked>>
       ELSE IF newClosed
       THEN \* a send on a closed channel panics
            epanicked' = TRUE /\ UNCHANGED newConversationQ
       ELSE /\ newConversationQ' = IF TriggerQueueHasRoom(newConversationQ)
                                   THEN Append(newConversationQ, conv)
                                   ELSE newConversationQ
            /\ UNCHANGED epanicked
    /\ UNCHANGED <<updateConversationQ, taskQueue, rpc, rtask, apc, atask,
                   aconvs, evaluated, touched, fetchErr>>
    /\ UNCHANGED <<eclosed, ecpc, newClosed, updClosed>>
    /\ UNCHANGED <<rvars, NotAutomation>>

\* EvaluateConversationUpdateRules(uuid)
EvaluateConversationUpdateRules(conv) ==
    /\ ~epanicked
    /\ ClosedMuRLockReady
    /\ IF SeesEngineClosed
       THEN UNCHANGED <<updateConversationQ, epanicked>>
       ELSE IF updClosed
       THEN \* a send on a closed channel panics
            epanicked' = TRUE /\ UNCHANGED updateConversationQ
       ELSE /\ updateConversationQ' = IF TriggerQueueHasRoom(updateConversationQ)
                                      THEN Append(updateConversationQ, conv)
                                      ELSE updateConversationQ
            /\ UNCHANGED epanicked
    /\ UNCHANGED <<newConversationQ, taskQueue, rpc, rtask, apc, atask,
                   aconvs, evaluated, touched, fetchErr>>
    /\ UNCHANGED <<eclosed, ecpc, newClosed, updClosed>>
    /\ UNCHANGED <<rvars, NotAutomation>>

NoTask == [taskType |-> "none", conversationUUID |-> 0]

\* Engine.Run: case conversationUUID, ok := <-e.newConversationQ
RunRecvNew ==
    /\ rpc = "select"
    /\ newConversationQ # <<>>
    /\ rtask' = [taskType |-> NewConversation, conversationUUID |-> Head(newConversationQ)]
    /\ newConversationQ' = Tail(newConversationQ)
    /\ rpc' = "push"
    /\ UNCHANGED <<updateConversationQ, taskQueue, apc, atask, aconvs,
                   evaluated, touched, fetchErr>>
    /\ UNCHANGED <<rvars, NotEngine>>

\* Engine.Run: case conversationUUID, ok := <-e.updateConversationQ
RunRecvUpdate ==
    /\ rpc = "select"
    /\ updateConversationQ # <<>>
    /\ rtask' = [taskType |-> UpdateConversation,
                 conversationUUID |-> Head(updateConversationQ)]
    /\ updateConversationQ' = Tail(updateConversationQ)
    /\ rpc' = "push"
    /\ UNCHANGED <<newConversationQ, taskQueue, apc, atask, aconvs,
                   evaluated, touched, fetchErr>>
    /\ UNCHANGED <<rvars, NotEngine>>

\* Engine.Run: case <-ticker.C
RunTick ==
    /\ rpc = "select"
    /\ rtask' = [taskType |-> TimeTrigger, conversationUUID |-> 0]
    /\ rpc' = "push"
    /\ UNCHANGED <<newConversationQ, updateConversationQ, taskQueue, apc, atask,
                   aconvs, evaluated, touched, fetchErr>>
    /\ UNCHANGED <<rvars, NotEngine>>

\* Engine.Run: taskQueue <- ConversationTask{...} (blocks while it is full).
RunPush ==
    /\ rpc = "push"
    /\ Len(taskQueue) < TaskCap
    /\ taskQueue' = Append(taskQueue, rtask)
    /\ rtask' = NoTask
    /\ rpc' = "select"
    /\ UNCHANGED <<newConversationQ, updateConversationQ, apc, atask, aconvs,
                   evaluated, touched, fetchErr>>
    /\ UNCHANGED <<rvars, NotEngine>>

\* Engine.Run: case <-ctx.Done(): return; the deferred function stops the
\* ticker and closes taskQueue.
RunCtxDone ==
    /\ rpc = "select"
    /\ cancelled
    /\ rpc' = "exited"
    /\ UNCHANGED <<newConversationQ, updateConversationQ, taskQueue, rtask, apc, atask,
                   aconvs, evaluated, touched, fetchErr>>
    /\ UNCHANGED <<rvars, NotEngine>>

\* Engine.Run: case conversationUUID, ok := <-e.newConversationQ with ok
\* false (closed and drained): return; the deferred function closes taskQueue.
RunNewClosed ==
    /\ rpc = "select"
    /\ newClosed
    /\ newConversationQ = <<>>
    /\ rpc' = "exited"
    /\ UNCHANGED <<newConversationQ, updateConversationQ, taskQueue, rtask, apc, atask,
                   aconvs, evaluated, touched, fetchErr>>
    /\ UNCHANGED <<rvars, NotEngine>>

\* Engine.Run: case conversationUUID, ok := <-e.updateConversationQ with ok
\* false: return.
RunUpdateClosed ==
    /\ rpc = "select"
    /\ updClosed
    /\ updateConversationQ = <<>>
    /\ rpc' = "exited"
    /\ UNCHANGED <<newConversationQ, updateConversationQ, taskQueue, rtask, apc, atask,
                   aconvs, evaluated, touched, fetchErr>>
    /\ UNCHANGED <<rvars, NotEngine>>

\* Engine.Close: e.closedMu.Lock() returns.
EngineCloseLock ==
    /\ ~epanicked
    /\ ecpc \in {"idle", "returned", "returnedclosed"}
    /\ ecpc' = "locked"
    /\ UNCHANGED <<eclosed, newClosed, updClosed, epanicked>>
    /\ UNCHANGED <<rvars, qvars, NotAutomation>>

\* Engine.Close: if e.closed { return }, and the deferred Unlock.
EngineCloseClosed ==
    /\ ~epanicked
    /\ ecpc = "locked"
    /\ eclosed
    /\ ecpc' = "returnedclosed"
    /\ UNCHANGED <<eclosed, newClosed, updClosed, epanicked>>
    /\ UNCHANGED <<rvars, qvars, NotAutomation>>

\* Engine.Close: e.closed = true; close(e.newConversationQ)
EngineCloseNew ==
    /\ ~epanicked
    /\ ecpc = "locked"
    /\ ~eclosed
    /\ eclosed' = TRUE
    /\ IF newClosed
       THEN epanicked' = TRUE /\ UNCHANGED <<newClosed, ecpc>>
       ELSE newClosed' = TRUE /\ ecpc' = "newclosed" /\ UNCHANGED epanicked
    /\ UNCHANGED updClosed
    /\ UNCHANGED <<rvars, qvars, NotAutomation>>

\* Engine.Close: close(e.updateConversationQ)
EngineCloseUpdate ==
    /\ ~epanicked
    /\ ecpc = "newclosed"
    /\ IF updClosed
       THEN epanicked' = TRUE /\ UNCHANGED <<updClosed, ecpc>>
       ELSE updClosed' = TRUE /\ ecpc' = "wait" /\ UNCHANGED epanicked
    /\ UNCHANGED <<eclosed, newClosed>>
    /\ UNCHANGED <<rvars, qvars, NotAutomation>>

\* Engine.Close: e.wg.Wait() returns (every worker has run wg.Done()), then
\* the deferred Unlock.
EngineCloseWait ==
    /\ ~epanicked
    /\ ecpc = "wait"
    /\ \A w \in AutoWorkers : apc[w] = "exited"
    /\ ecpc' = "returned"
    /\ UNCHANGED <<eclosed, newClosed, updClosed, epanicked>>
    /\ UNCHANGED <<rvars, qvars, NotAutomation>>

\* taskQueue is closed: Engine.Run has returned.
TaskQueueClosed == rpc = "exited"

\* Engine.worker: case <-ctx.Done(): return
AutoCtxDone(w) ==
    /\ apc[w] = "recv"
    /\ cancelled
    /\ apc' = [apc EXCEPT ![w] = "exited"]
    /\ UNCHANGED <<newConversationQ, updateConversationQ, taskQueue, rpc, rtask, atask,
                   aconvs, evaluated, touched, fetchErr>>
    /\ UNCHANGED <<rvars, NotEngine>>

\* Engine.worker: task, ok := <-taskQueue with ok false: closed and drained.
AutoQueueClosed(w) ==
    /\ apc[w] = "recv"
    /\ TaskQueueClosed
    /\ taskQueue = <<>>
    /\ apc' = [apc EXCEPT ![w] = "exited"]
    /\ UNCHANGED <<newConversationQ, updateConversationQ, taskQueue, rpc, rtask, atask,
                   aconvs, evaluated, touched, fetchErr>>
    /\ UNCHANGED <<rvars, NotEngine>>

\* Engine.worker: case task, ok := <-taskQueue
AutoRecv(w) ==
    /\ apc[w] = "recv"
    /\ taskQueue # <<>>
    /\ atask' = [atask EXCEPT ![w] = Head(taskQueue)]
    /\ taskQueue' = Tail(taskQueue)
    /\ evaluated' = [evaluated EXCEPT ![w] = {}]
    /\ apc' = [apc EXCEPT ![w] = "fetch"]
    /\ UNCHANGED <<newConversationQ, updateConversationQ, rpc, rtask, aconvs, touched, fetchErr>>
    /\ UNCHANGED <<rvars, NotEngine>>

\* What the store returns for the task: the conversation of a new or update
\* task; for a time trigger, the conversations created in the window.
Fetched(task) ==
    IF task.taskType = TimeTrigger
    THEN SUBSET Convs
    ELSE {{task.conversationUUID}}

\* GetConversation / GetConversationsCreatedAfter succeeds.
AutoFetch(w) ==
    /\ apc[w] = "fetch"
    /\ \E cs \in Fetched(atask[w]) : aconvs' = [aconvs EXCEPT ![w] = cs]
    /\ apc' = [apc EXCEPT ![w] = "eval"]
    /\ UNCHANGED <<newConversationQ, updateConversationQ, taskQueue, rpc, rtask,
                   atask, evaluated, touched, fetchErr>>
    /\ UNCHANGED <<rvars, NotEngine>>

\* A worker that stops at a failed fetch.
AfterFetchErrExit == "exited"

\* The handler logs the error and returns: the worker is back at its select.
AfterFetchErr == "recv"

\* GetConversation / GetConversationsCreatedAfter fails.
AutoFetchErr(w) ==
    /\ apc[w] = "fetch"
    /\ apc' = [apc EXCEPT ![w] = AfterFetchErr]
    /\ atask' = [atask EXCEPT ![w] = NoTask]
    /\ fetchErr' = [fetchErr EXCEPT ![w] = TRUE]
    /\ UNCHANGED <<newConversationQ, updateConversationQ, taskQueue, rpc, rtask,
                   aconvs, evaluated, touched>>
    /\ UNCHANGED <<rvars, NotEngine>>

\* The rule type a task's handler asks filterRulesByType for.
HandlerRuleType(task) ==
    IF task.taskType = NewConversation THEN RuleTypeNewConversation
    ELSE IF task.taskType = UpdateConversation THEN RuleTypeConversationUpdate
    ELSE RuleTypeTimeTrigger

\* evalConversationRules(rules, conversation): every rule is evaluated
\* against the conversation, whatever the earlier rules did.
evalConversationRules(rs, conv) == {<<rule.id, conv>> : rule \in rs}

\* The handler filters the snapshot under the read lock, then evaluates the
\* rules against every fetched conversation; the actions of the rules that
\* match mutate their conversation.
AutoEval(w) ==
    /\ apc[w] = "eval"
    /\ RLockReady
    /\ \E found \in ReadRules :
        LET rs == filterRulesByType(found, HandlerRuleType(atask[w]))
            pairs == UNION {evalConversationRules(rs, conv) : conv \in aconvs[w]}
        IN /\ evaluated' = [evaluated EXCEPT ![w] = pairs]
           /\ \E matched \in SUBSET {pr[2] : pr \in pairs} :
                touched' = touched \cup matched
    /\ apc' = [apc EXCEPT ![w] = "recv"]
    /\ atask' = [atask EXCEPT ![w] = NoTask]
    /\ aconvs' = [aconvs EXCEPT ![w] = {}]
    /\ fetchErr' = [fetchErr EXCEPT ![w] = FALSE]
    /\ UNCHANGED <<newConversationQ, updateConversationQ, taskQueue, rpc, rtask>>
    /\ UNCHANGED <<rvars, NotEngine>>

---------------------------------------------------------------------------
(* The broadcast adapter (ws.go) and the hub it hands off to               *)

MessageTypeNewMessage == "new_message"
MessageTypeMessagePropUpdate == "message_prop_update"
MessageTypeNewConversation == "new_conversation"
MessageTypeConversationPropertyUpdate == "conversation_prop_update"

ConversationScoped ==
    {MessageTypeNewMessage, MessageTypeMessagePropUpdate,
     MessageTypeConversationPropertyUpdate}

\* The values a caller passes as `value any`: one json.Marshal encodes, and
\* one it returns an error for (a channel, a function, a NaN).
Values == {"plain", "unserializable"}

\* json.Marshal(message) returns an error. The payloads of a new message and
\* of a new conversation hold strings, a bool and an int only.
jsonMarshalErr(b) == bvalue[b] = "unserializable"

\* A session starts watching a conversation: the hub adds the user id.
Subscribe(u, c) ==
    /\ u \notin subscribers[c]
    /\ subscribers' = [subscribers EXCEPT ![c] = @ \cup {u}]
    /\ UNCHANGED <<bpc, bkind, bconv, buser, bvalue, userIDs, handoffs>>
    /\ UNCHANGED <<dvars, ivars, svars, cvars, evars>>

\* A session stops watching a conversation: the hub drops the user id.
Unsubscribe(u, c) ==
    /\ u \in subscribers[c]
    /\ subscribers' = [subscribers EXCEPT ![c] = @ \ {u}]
    /\ UNCHANGED <<bpc, bkind, bconv, buser, bvalue, userIDs, handoffs>>
    /\ UNCHANGED <<dvars, ivars, svars, cvars, evars>>

\* m.wsHub.GetConversationSubscribers(conversationUUID)
GetConversationSubscribers(c) == subscribers[c]

\* A conversation-scoped Broadcast function builds its message and calls
\* broadcastToConversation.
BuildForConversation(b, kind, c, v) ==
    /\ bpc[b] = "idle"
    /\ bkind' = [bkind EXCEPT ![b] = kind]
    /\ bconv' = [bconv EXCEPT ![b] = c]
    /\ buser' = [buser EXCEPT ![b] = 0]
    /\ bvalue' = [bvalue EXCEPT ![b] = v]
    /\ userIDs' = [userIDs EXCEPT ![b] = {}]
    /\ handoffs' = [handoffs EXCEPT ![b] = <<>>]
    /\ bpc' = [bpc EXCEPT ![b] = "resolve"]
    /\ UNCHANGED subscribers
    /\ UNCHANGED <<dvars, ivars, svars, cvars, evars>>

BroadcastNewConversationMessageCall(b, c) ==
    BuildForConversation(b, MessageTypeNewMessage, c, "plain")

BroadcastMessagePropUpdateCall(b, c, v) ==
    BuildForConversation(b, MessageTypeMessagePropUpdate, c, v)

BroadcastConversationPropertyUpdate(b, c, v) ==
    BuildForConversation(b, MessageTypeConversationPropertyUpdate, c, v)

\* BroadcastNewConversation builds its message and calls broadcastToUsers
\* with []int{userID}.
BroadcastNewConversation(b, u) ==
    /\ bpc[b] = "idle"
    /\ bkind' = [bkind EXCEPT ![b] = MessageTypeNewConversation]
    /\ bconv' = [bconv EXCEPT ![b] = 0]
    /\ buser' = [buser EXCEPT ![b] = u]
    /\ bvalue' = [bvalue EXCEPT ![b] = "plain"]
    /\ userIDs' = [userIDs EXCEPT ![b] = {u}]
    /\ handoffs' = [handoffs EXCEPT ![b] = <<>>]
    /\ bpc' = [bpc EXCEPT ![b] = "marshal"]
    /\ UNCHANGED subscribers
    /\ UNCHANGED <<dvars, ivars, svars, cvars, evars>>

\* broadcastToConversation asks the hub for the subscribers and calls
\* broadcastToUsers with the answer.
broadcastToConversation(b) ==
    /\ bpc[b] = "resolve"
    /\ userIDs' = [userIDs EXCEPT ![b] = GetConversationSubscribers(bconv[b])]
    /\ bpc' = [bpc EXCEPT ![b] = "marshal"]
    /\ UNCHANGED <<subscribers, bkind, bconv, buser, bvalue, handoffs>>
    /\ UNCHANGED <<dvars, ivars, svars, cvars, evars>>

\* m.wsHub.BroadcastMessage(wsmodels.BroadcastMessage{Data, Users: userIDs})
BroadcastMessageToAll(b) == Append(handoffs[b], Users)
BroadcastMessage(b) == Append(handoffs[b], userIDs[b])

\* broadcastToUsers: json.Marshal succeeds, the bytes go to the hub.
broadcastToUsers(b) ==
    /\ bpc[b] = "marshal"
    /\ ~jsonMarshalErr(b)
    /\ handoffs' = [handoffs EXCEPT ![b] = BroadcastMessage(b)]
    /\ bpc' = [bpc EXCEPT ![b] = "idle"]
    /\ UNCHANGED <<subscribers, bkind, bconv, buser, bvalue, userIDs>>
    /\ UNCHANGED <<dvars, ivars, svars, cvars, evars>>

\* broadcastToUsers: json.Marshal fails, the error is logged, the function
\* returns.
broadcastToUsersErr(b) ==
    /\ bpc[b] = "marshal"
    /\ jsonMarshalErr(b)
    /\ bpc' = [bpc EXCEPT ![b] = "idle"]
    /\ UNCHANGED <<subscribers, bkind, bconv, buser, bvalue, userIDs, handoffs>>
    /\ UNCHANGED <<dvars, ivars, svars, cvars, evars>>

---------------------------------------------------------------------------
(* Initial states                                                          *)

\* The hub's registry with nobody subscribed, no Broadcast function called yet.
BroadcastVarsInit ==
    /\ subscribers = [c \in Convs |-> {}]
    /\ bpc = [b \in Broadcasters |-> "idle"]
    /\ bkind = [b \in Broadcasters |-> "none"]
    /\ bconv = [b \in Broadcasters |-> 0]
    /\ buser = [b \in Broadcasters |-> 0]
    /\ bvalue = [b \in Broadcasters |-> "none"]
    /\ userIDs = [b \in Broadcasters |-> {}]
    /\ handoffs = [b \in Broadcasters |-> <<>>]

\* The outgoing path before its first tick, the rows having the statuses st.
DispatchVarsInitWith(st) ==
    /\ status = st
    /\ lastWrite = [m \in AllMsgs |-> [site |-> "insert", from |-> "none"]]
    /\ propUpdates = [uuid |-> 0, value |-> "none", n |-> 0]
    /\ firstReplyAt = 0
    /\ firstSent = 0
    /\ inflight = {}
    /\ outQ = <<>>
    /\ spc = "tick"
    /\ scanIDs = {}
    /\ pendingMessages = <<>>
    /\ wpc = [w \in Workers |-> "recv"]
    /\ wmsg = [w \in Workers |-> 0]
    /\ werr = [w \in Workers |-> "none"]

DispatchVarsInit ==
    DispatchVarsInitWith([m \in AllMsgs |-> IF m \in FailedMsgs THEN MessageStatusFailed
                                           ELSE InsertedStatus(m)])

\* The store holds k earlier messages, each in a conversation of its own.
IncomingVarsInit(k) ==
    /\ inQ = <<>>
    /\ epc = [c \in Callers |-> "idle"]
    /\ eres = [c \in Callers |-> "none"]
    /\ ipc = "recv"
    /\ ihand = NoInput
    /\ iret = "none"
    /\ messages = [i \in 1..k |-> [sid |-> i, conv |-> i]]
    /\ conversations = [i \in 1..k |-> [by |-> i]]
    /\ newConvTriggers = <<>>
    /\ accepted = <<>>
    /\ nproc = 0

\* No InsertMessage call is under way; the conversation has no message yet.
InsertVarsInit ==
    /\ inspc = [c \in Inserters |-> "idle"]
    /\ insmsg = [c \in Inserters |-> 0]
    /\ ninserted = 0
    /\ lastMessage = 0
    /\ newMessages = [uuid |-> 0, n |-> 0]

\* New: empty trigger queues, the snapshot loaded from the store; Run has
\* started the workers. The rule records have the types given.
EngineVarsInit(types) ==
    /\ ruleType = types
    /\ ruleEnabled = [r \in Rules |-> TRUE]
    /\ ruleDecodes = [r \in Rules |-> TRUE]
    /\ rules = {[id |-> r, type |-> types[r]] : r \in {x \in Rules : types[x] # RuleAbsent}}
    /\ rulesMu = 0
    /\ tpc = [c \in Togglers |-> "idle"]
    /\ trule = [c \in Togglers |-> 0]
    /\ tlocal = [c \in Togglers |-> {}]
    /\ tres = [c \in Togglers |-> "none"]
    /\ newConversationQ = <<>>
    /\ updateConversationQ = <<>>
    /\ taskQueue = <<>>
    /\ rpc = "select"
    /\ rtask = NoTask
    /\ apc = [w \in AutoWorkers |-> "recv"]
    /\ atask = [w \in AutoWorkers |-> NoTask]
    /\ aconvs = [w \in AutoWorkers |-> {}]
    /\ evaluated = [w \in AutoWorkers |-> {}]
    /\ touched = {}
    /\ fetchErr = [w \in AutoWorkers |-> FALSE]
    /\ eclosed = FALSE
    /\ ecpc = "idle"
    /\ newClosed = FALSE
    /\ updClosed = FALSE
    /\ epanicked = FALSE

\* The engine with every rule record of type new-conversation.
EngineVarsIdle ==
    EngineVarsInit([r \in Rules |-> RuleTypeNewConversation])

ShutdownVarsInit ==
    /\ closed = FALSE
    /\ mu = 0
    /\ cpc = "idle"
    /\ outClosed = FALSE
    /\ inClosed = FALSE
    /\ cancelled = FALSE
    /\ panicked = FALSE

---------------------------------------------------------------------------
(* The outgoing path: scanner, dispatch workers and manual retries         *)

DispatchInit ==
    /\ DispatchVarsInit
    /\ IncomingVarsInit(0)
    /\ ShutdownVarsInit
    /\ InsertVarsInit
    /\ BroadcastVarsInit
    /\ EngineVarsIdle

DispatchNext ==
    \/ \E m \in Msgs : MarkMessageAsPending(m)
    \/ \E m \in Msgs : MarkMessageAsPendingErr(m)
    \/ ScanTick
    \/ ScanQuery
    \/ ScanQueryErr
    \/ ScanLoopEnd
    \/ ScanInboxErr
    \/ ScanRenderErr
    \/ ScanRenderErrNoWrite
    \/ ScanStore
    \/ ScanPush
    \/ \E w \in Workers : WorkerRecv(w)
    \/ \E w \in Workers : WorkerInboxOk(w)
    \/ \E w \in Workers : WorkerInboxErr(w)
    \/ \E w \in Workers : WorkerAttachOk(w)
    \/ \E w \in Workers : WorkerAttachErr(w)
    \/ \E w \in Workers : WorkerSend(w, "none")
    \/ \E w \in Workers : WorkerSend(w, "send")
    \/ \E w \in Workers : WorkerStatus(w)
    \/ \E w \in Workers : WorkerStatusErr(w)
    \/ \E w \in Workers : WorkerFirstReply(w)
    \/ \E w \in Workers : WorkerFailStatus(w)
    \/ \E w \in Workers : WorkerFailStatusErr(w)
    \/ \E w \in Workers : WorkerDelete(w)

SpecDispatch == DispatchInit /\ [][DispatchNext]_vars

---------------------------------------------------------------------------
(* MarkMessageAsPending on an incoming message and on a private note,      *)
(* against the scanner and the dispatch workers                            *)

ResetNext ==
    \/ \E m \in ReceivedMsgs \cup PrivateMsgs : MarkMessageAsPending(m)
    \/ ScanTick
    \/ ScanQuery
    \/ ScanLoopEnd
    \/ ScanStore
    \/ ScanPush
    \/ \E w \in Workers : WorkerRecv(w)
    \/ \E w \in Workers : WorkerInboxOk(w)
    \/ \E w \in Workers : WorkerAttachOk(w)
    \/ \E w \in Workers : WorkerSend(w, "none")
    \/ \E w \in Workers : WorkerSend(w, "send")
    \/ \E w \in Workers : WorkerStatus(w)
    \/ \E w \in Workers : WorkerFirstReply(w)
    \/ \E w \in Workers : WorkerDelete(w)

SpecReset == DispatchInit /\ [][ResetNext]_vars

---------------------------------------------------------------------------
(* A failed message of the conversation is retried while the scanner and   *)
(* the workers dispatch the pending one                                    *)

RetryNext ==
    \/ \E m \in FailedMsgs : MarkMessageAsPending(m)
    \/ ScanTick
    \/ ScanQuery
    \/ ScanLoopEnd
    \/ ScanStore
    \/ ScanPush
    \/ \E w \in Workers : WorkerRecv(w)
    \/ \E w \in Workers : WorkerInboxOk(w)
    \/ \E w \in Workers : WorkerAttachOk(w)
    \/ \E w \in Workers : WorkerSend(w, "none")
    \/ \E w \in Workers : WorkerSend(w, "send")
    \/ \E w \in Workers : WorkerStatus(w)
    \/ \E w \in Workers : WorkerFirstReply(w)
    \/ \E w \in Workers : WorkerDelete(w)

SpecRetry == DispatchInit /\ [][RetryNext]_vars

\* The broadcast adapter: callers of the four Broadcast functions while
\* sessions subscribe and unsubscribe at the hub.
BroadcastNext ==
    \/ \E u \in Users, c \in Convs : Subscribe(u, c)
    \/ \E u \in Users, c \in Convs : Unsubscribe(u, c)
    \/ \E b \in Broadcasters, c \in Convs : BroadcastNewConversationMessageCall(b, c)
    \/ \E b \in Broadcasters, c \in Convs, v \in Values :
            BroadcastMessagePropUpdateCall(b, c, v)
    \/ \E b \in Broadcasters, c \in Convs, v \in Values :
            BroadcastConversationPropertyUpdate(b, c, v)
    \/ \E b \in Broadcasters, u \in Users : BroadcastNewConversation(b, u)
    \/ \E b \in Broadcasters : broadcastToConversation(b)
    \/ \E b \in Broadcasters : broadcastToUsers(b)
    \/ \E b \in Broadcasters : broadcastToUsersErr(b)

SpecBroadcast == DispatchInit /\ [][BroadcastNext]_vars


---------------------------------------------------------------------------
(* The ingress path: EnqueueIncoming callers and the incoming worker       *)

IncomingInit ==
    /\ DispatchVarsInit
    /\ \E k \in 0..MaxStored : IncomingVarsInit(k)
    /\ ShutdownVarsInit
    /\ InsertVarsInit
    /\ BroadcastVarsInit
    /\ EngineVarsIdle

IncomingNext ==
    \/ \E c \in Callers : EnqueueLock(c)
    \/ \E c \in Callers, in \in Inputs : EnqueueSend(c, in)
    \/ IncomingRecv
    \/ IncomingProcess

SpecIncoming == IncomingInit /\ [][IncomingNext]_vars

---------------------------------------------------------------------------
(* The ingress path when callers also hand in messages without a source id *)

IngressNext ==
    \/ \E c \in Callers : EnqueueLock(c)
    \/ \E c \in Callers, in \in Inputs \cup MalformedInputs : EnqueueSend(c, in)
    \/ IncomingRecv
    \/ IncomingProcess

SpecIngress == IncomingInit /\ [][IngressNext]_vars

---------------------------------------------------------------------------
(* Every writer of the store that broadcasts: the outgoing path, retries   *)
(* and concurrent InsertMessage calls on one conversation                  *)

StoreInit ==
    /\ DispatchVarsInit
    /\ IncomingVarsInit(0)
    /\ ShutdownVarsInit
    /\ InsertVarsInit
    /\ BroadcastVarsInit
    /\ EngineVarsIdle

InsertNext ==
    \/ \E c \in Inserters : InsertExec(c)
    \/ \E c \in Inserters : InsertExecErr(c)
    \/ \E c \in Inserters : InsertParticipant(c)
    \/ \E c \in Inserters : InsertParticipantErr(c)
    \/ \E c \in Inserters : InsertLastMessage(c)
    \/ \E c \in Inserters : InsertBroadcast(c)

StoreNext ==
    \/ DispatchNext
    \/ InsertNext

SpecStore == StoreInit /\ [][StoreNext]_vars

---------------------------------------------------------------------------
(* The automation engine: triggers, Run, workers and ToggleRule callers    *)

EngineInit ==
    /\ DispatchVarsInit
    /\ IncomingVarsInit(0)
    /\ ShutdownVarsInit
    /\ InsertVarsInit
    /\ BroadcastVarsInit
    /\ \E types \in [Rules -> RuleTypes] : EngineVarsInit(types)

EngineNext ==
    \/ \E conv \in Convs : EvaluateNewConversationRules(conv)
    \/ \E conv \in Convs : EvaluateConversationUpdateRules(conv)
    \/ RunRecvNew
    \/ RunRecvUpdate
    \/ RunTick
    \/ RunPush
    \/ \E w \in AutoWorkers : AutoRecv(w)
    \/ \E w \in AutoWorkers : AutoFetch(w)
    \/ \E w \in AutoWorkers : AutoFetchErr(w)
    \/ \E w \in AutoWorkers : AutoEval(w)

SpecEngine == EngineInit /\ [][EngineNext]_vars

---------------------------------------------------------------------------
(* ToggleRule callers against the workers that read the snapshot: every    *)
(* rule is of type new-conversation and the events are new conversations   *)

RulesInit ==
    /\ DispatchVarsInit
    /\ IncomingVarsInit(0)
    /\ ShutdownVarsInit
    /\ InsertVarsInit
    /\ BroadcastVarsInit
    /\ EngineVarsIdle

RulesNext ==
    \/ \E c \in Togglers, r \in Rules : ToggleExec(c, r)
    \/ \E c \in Togglers, r \in Rules : ToggleExecErr(c, r)
    \/ \E c \in Togglers : ReloadLock(c)
    \/ \E c \in Togglers : ReloadQuery(c)
    \/ \E c \in Togglers : ReloadQueryErr(c)
    \/ \E c \in Togglers : ReloadAssign(c)
    \/ EvaluateNewConversationRules(1)
    \/ RunRecvNew
    \/ RunPush
    \/ \E w \in AutoWorkers : AutoRecv(w)
    \/ \E w \in AutoWorkers : AutoFetch(w)
    \/ \E w \in AutoWorkers : AutoEval(w)

SpecRules == RulesInit /\ [][RulesNext]_vars

---------------------------------------------------------------------------
(* Concurrent CreateRule, UpdateRule, DeleteRule and ToggleRule calls      *)

\* One enabled new-conversation rule in the store, loaded by New.
CrudInit ==
    /\ DispatchVarsInit
    /\ IncomingVarsInit(0)
    /\ ShutdownVarsInit
    /\ InsertVarsInit
    /\ BroadcastVarsInit
    /\ EngineVarsInit([r \in Rules |-> IF r = 1 THEN RuleTypeNewConversation ELSE RuleAbsent])

CrudNext ==
    \/ \E c \in Togglers, r \in Rules, t \in RuleTypes, d \in BOOLEAN : CreateExec(c, r, t, d)
    \/ \E c \in Togglers : CreateExecErr(c)
    \/ \E c \in Togglers, r \in Rules, t \in RuleTypes, d \in BOOLEAN : UpdateExec(c, r, t, d)
    \/ \E c \in Togglers : UpdateExecErr(c)
    \/ \E c \in Togglers, r \in Rules : DeleteExec(c, r)
    \/ \E c \in Togglers : DeleteExecErr(c)
    \/ \E c \in Togglers, r \in Rules : ruleType[r] # RuleAbsent /\ ToggleExec(c, r)
    \/ \E c \in Togglers, r \in Rules : ToggleExecErr(c, r)
    \/ \E c \in Togglers : ReloadLock(c)
    \/ \E c \in Togglers : ReloadQuery(c)
    \/ \E c \in Togglers : ReloadQueryErr(c)
    \/ \E c \in Togglers : ReloadAssign(c)

SpecCrud == CrudInit /\ [][CrudNext]_vars

---------------------------------------------------------------------------
(* Reloads that fail or meet a record that does not decode, while          *)
(* new-conversation events are evaluated                                   *)

ReloadNext ==
    \/ \E c \in Togglers, r \in Rules, d \in BOOLEAN :
            UpdateExec(c, r, RuleTypeNewConversation, d)
    \/ \E c \in Togglers : ReloadLock(c)
    \/ \E c \in Togglers : ReloadQuery(c)
    \/ \E c \in Togglers : ReloadQueryErr(c)
    \/ \E c \in Togglers : ReloadAssign(c)
    \/ EvaluateNewConversationRules(1)
    \/ RunRecvNew
    \/ RunPush
    \/ \E w \in AutoWorkers : AutoRecv(w)
    \/ \E w \in AutoWorkers : AutoFetch(w)
    \/ \E w \in AutoWorkers : AutoEval(w)

SpecReload == RulesInit /\ [][ReloadNext]_vars


---------------------------------------------------------------------------
(* Cancellation of the shared context: the scanner and the dispatch        *)
(* workers with two pending messages, the incoming worker, Engine.Run and  *)
(* the automation workers with new-conversation events                     *)

\* The steps of the scanner loop other than its return.
ScannerStep ==
    ScanTick \/ ScanQuery \/ ScanLoopEnd \/ ScanStore \/ ScanPush

\* The steps of a dispatch worker other than its return.
DispatchWorkerStep(w) ==
    \/ WorkerRecv(w)
    \/ WorkerInboxOk(w)
    \/ WorkerAttachOk(w)
    \/ WorkerSend(w, "none")
    \/ WorkerStatus(w)
    \/ WorkerFirstReply(w)
    \/ WorkerDelete(w)

\* The steps of Engine.Run other than its return.
RunStep == RunRecvNew \/ RunPush

\* The steps of an automation worker other than its return.
AutoWorkerStep(w) == AutoRecv(w) \/ AutoFetch(w) \/ AutoEval(w)

\* The failed messages have been reset to pending before the first tick.
CancelInit ==
    /\ DispatchVarsInitWith([m \in AllMsgs |-> IF m \in FailedMsgs THEN MessageStatusPending
                                              ELSE InsertedStatus(m)])
    /\ IncomingVarsInit(0)
    /\ ShutdownVarsInit
    /\ InsertVarsInit
    /\ BroadcastVarsInit
    /\ EngineVarsIdle

CancelNext ==
    \/ CtxCancel
    \/ ScannerStep
    \/ ScanCtxDone
    \/ \E w \in Workers : DispatchWorkerStep(w)
    \/ \E w \in Workers : WorkerCtxDone(w)
    \/ IncomingCtxDone
    \/ EvaluateNewConversationRules(1)
    \/ RunStep
    \/ RunCtxDone
    \/ \E w \in AutoWorkers : AutoWorkerStep(w)
    \/ \E w \in AutoWorkers : AutoCtxDone(w)
    \/ \E w \in AutoWorkers : AutoQueueClosed(w)

\* Every goroutine that can take a step eventually takes one, and a select
\* whose ctx.Done case is ready again and again eventually chooses it.
CancelFairness ==
    /\ WF_vars(ScannerStep)
    /\ SF_vars(ScanCtxDone)
    /\ \A w \in Workers : WF_vars(DispatchWorkerStep(w)) /\ SF_vars(WorkerCtxDone(w))
    /\ SF_vars(IncomingCtxDone)
    /\ WF_vars(RunStep)
    /\ SF_vars(RunCtxDone)
    /\ \A w \in AutoWorkers :
        /\ WF_vars(AutoWorkerStep(w))
        /\ SF_vars(AutoCtxDone(w))
        /\ WF_vars(AutoQueueClosed(w))

SpecCancel == CancelInit /\ [][CancelNext]_vars /\ CancelFairness

\* Any step of the scanner loop, any step of a dispatch worker.
ScannerAnyStep ==
    \/ ScanTick \/ ScanQuery \/ ScanQueryErr \/ ScanLoopEnd \/ ScanInboxErr
    \/ ScanRenderErr \/ ScanRenderErrNoWrite \/ ScanStore \/ ScanPush

DispatchWorkerAnyStep(w) ==
    \/ WorkerRecv(w) \/ WorkerInboxOk(w) \/ WorkerInboxErr(w)
    \/ WorkerAttachOk(w) \/ WorkerAttachErr(w)
    \/ WorkerSend(w, "none") \/ WorkerSend(w, "send")
    \/ WorkerStatus(w) \/ WorkerStatusErr(w) \/ WorkerFirstReply(w)
    \/ WorkerFailStatus(w) \/ WorkerFailStatusErr(w) \/ WorkerDelete(w)

\* The goroutines are scheduled fairly (weak fairness of their steps); the
\* query, the inbox lookup and rendering of every message, and the status
\* write of every message eventually succeed (strong fairness of the
\* successful outcome of a call that is made again and again).
LiveFairness ==
    /\ WF_vars(ScannerAnyStep)
    /\ SF_vars(ScanQuery)
    /\ \A w \in Workers : WF_vars(DispatchWorkerAnyStep(w))
    /\ \A m \in Msgs :
        /\ SF_vars(ScanStore /\ Head(pendingMessages) = m)
        /\ SF_vars(\E w \in Workers : WorkerStatus(w) /\ wmsg[w] = m)
        /\ SF_vars(\E w \in Workers : WorkerFailStatus(w) /\ wmsg[w] = m)

\* The outgoing path alone, neither closed nor cancelled, with every failure
\* of the store, of the inbox lookup and of the rendering, and with resets.
SpecLive == DispatchInit /\ [][DispatchNext]_vars /\ LiveFairness

---------------------------------------------------------------------------
(* Shutdown: Close and cancellation against callers, scanner and workers   *)

ShutdownNext ==
    \/ CloseLock
    \/ CloseOutgoing
    \/ CloseIncoming
    \/ CloseWait
    \/ CtxCancel
    \/ \E c \in Callers : EnqueueLock(c)
    \/ \E c \in Callers, in \in Inputs : in.sid = 1 /\ EnqueueSend(c, in)
    \/ IncomingRecv
    \/ IncomingProcess
    \/ IncomingCtxDone
    \/ IncomingQueueClosed
    \/ ScanTick
    \/ ScanQuery
    \/ ScanLoopEnd
    \/ ScanStore
    \/ ScanPush
    \/ ScanPushClosed
    \/ ScanCtxDone
    \/ \E w \in Workers : WorkerRecv(w)
    \/ \E w \in Workers : WorkerCtxDone(w)
    \/ \E w \in Workers : WorkerQueueClosed(w)
    \/ \E w \in Workers : WorkerInboxOk(w)
    \/ \E w \in Workers : WorkerAttachOk(w)
    \/ \E w \in Workers : WorkerSend(w, "none")
    \/ \E w \in Workers : WorkerSend(w, "send")
    \/ \E w \in Workers : WorkerStatus(w)
    \/ \E w \in Workers : WorkerFirstReply(w)
    \/ \E w \in Workers : WorkerDelete(w)

ShutdownInit ==
    /\ DispatchVarsInit
    /\ IncomingVarsInit(0)
    /\ ShutdownVarsInit
    /\ InsertVarsInit
    /\ BroadcastVarsInit
    /\ EngineVarsIdle

SpecShutdown == ShutdownInit /\ [][ShutdownNext]_vars

---------------------------------------------------------------------------
(* The worker loops under failures: one EnqueueIncoming caller, the store  *)
(* failing in processIncomingMessage, inbox, attachment and Send failures  *)
(* in the dispatch workers, Close and cancellation                         *)

WorkersNext ==
    \/ CloseLock
    \/ CloseOutgoing
    \/ CloseIncoming
    \/ CloseWait
    \/ CtxCancel
    \/ EnqueueLock(1)
    \/ \E in \in Inputs : in.sid = 1 /\ EnqueueSend(1, in)
    \/ IncomingRecv
    \/ IncomingProcess
    \/ IncomingCtxDone
    \/ IncomingQueueClosed
    \/ ScanTick
    \/ ScanQuery
    \/ ScanLoopEnd
    \/ ScanStore
    \/ ScanPush
    \/ ScanPushClosed
    \/ ScanCtxDone
    \/ \E w \in Workers : WorkerRecv(w)
    \/ \E w \in Workers : WorkerCtxDone(w)
    \/ \E w \in Workers : WorkerQueueClosed(w)
    \/ \E w \in Workers : WorkerInboxOk(w)
    \/ \E w \in Workers : WorkerInboxErr(w)
    \/ \E w \in Workers : WorkerAttachOk(w)
    \/ \E w \in Workers : WorkerAttachErr(w)
    \/ \E w \in Workers : WorkerFailStatus(w)
    \/ \E w \in Workers : WorkerSend(w, "none")
    \/ \E w \in Workers : WorkerSend(w, "send")
    \/ \E w \in Workers : WorkerStatus(w)
    \/ \E w \in Workers : WorkerFirstReply(w)
    \/ \E w \in Workers : WorkerDelete(w)

SpecWorkers == ShutdownInit /\ [][WorkersNext]_vars

---------------------------------------------------------------------------
(* Properties of the outgoing path                                         *)

Holders(m) == {w \in Workers : wmsg[w] = m}
Queued(m) == {i \in 1..Len(outQ) : outQ[i] = m}

\* C1: no message id is held by two dispatch workers at the same time, and
\* no message id occurs more than once among the dispatch-queue entries and
\* the messages held by workers.
AtMostOneInFlight ==
    \A m \in Msgs : Cardinality(Holders(m)) + Cardinality(Queued(m)) <= 1

\* C3: every write of sent or failed (by a dispatch worker or by the
\* scanner's rendering step) replaced the stored status pending.
SentFailedOnlyFromPending ==
    \A m \in Msgs :
        lastWrite[m].site \in {"sent", "send", "inbox", "attach", "render"}
            => lastWrite[m].from = MessageStatusPending

\* C4: when a worker finishes a message (it goes back to the select), the
\* id is not in the in-flight set, and the status it wrote in its last step
\* is failed after a failure, sent after a success.
FinishedMessageSettled ==
    [][\A w \in Workers :
          /\ (WorkerFailStatus(w) \/ WorkerFailStatusErr(w) \/ WorkerDelete(w))
                => wmsg[w] \notin inflight'
          /\ WorkerFailStatus(w) => status'[wmsg[w]] = MessageStatusFailed
      ]_vars

\* C5 as stated: a message whose Send failed, finished by its worker and no
\* longer in flight, is in the candidate set of the next scan tick.
FailedSendRescanned ==
    [][ScanQuery =>
          \A m \in Msgs :
              (lastWrite[m].site = "send" /\ m \notin scanIDs)
                  => m \in Range(pendingMessages')
      ]_vars

\* C5 amended: a message whose last status write is the failed of a failed
\* Send is in no scan tick's candidate set; once MarkMessageAsPending has
\* reset it, a tick that did not read it as in flight selects it.
FailedSendNotRescanned ==
    [][ScanQuery =>
          \A m \in Msgs :
              /\ lastWrite[m].site = "send" => m \notin Range(pendingMessages')
              /\ (lastWrite[m].site = "reset" /\ m \notin scanIDs)
                    => m \in Range(pendingMessages')
      ]_vars

\* C5 witness: the message is failed after a failed Send, out of the
\* in-flight set and held by no worker, and a scan tick that read the
\* in-flight ids without it runs its query.
FailedSendFacesScan ==
    \E m \in Msgs :
        /\ lastWrite[m].site = "send"
        /\ status[m] = MessageStatusFailed
        /\ m \notin inflight /\ Holders(m) = {} /\ Queued(m) = {}
        /\ spc = "query" /\ m \notin scanIDs

\* The scanner leaves the head of pendingMessages behind in this step.
ScanDrops(m) ==
    /\ pendingMessages # <<>>
    /\ Head(pendingMessages) = m
    /\ pendingMessages' = Tail(pendingMessages)

---------------------------------------------------------------------------
(* Properties of the ingress path                                          *)

\* The deliveries processIncomingMessage has handled so far, in order.
Processed == SubSeq(accepted, 1, nproc)

\* The stored messages that carry source id s.
StoredWithSourceID(s) == {i \in 1..Len(messages) : messages[i].sid = s}

\* The conversations created for the message with source id s.
CreatedFor(s) == {i \in 1..Len(conversations) : conversations[i].by = s}

\* C2: once the same incoming message has been processed twice, the store
\* holds at most one message with its source id and at most one
\* conversation created for it.
DuplicateDeliveryStoredOnce ==
    \A i, j \in 1..Len(Processed) :
        (i < j /\ Processed[i] = Processed[j]) =>
            /\ Cardinality(StoredWithSourceID(Processed[i].sid)) <= 1
            /\ Cardinality(CreatedFor(Processed[i].sid)) <= 1

\* C7: the incoming queue never holds more than its capacity, a caller
\* under the lock can always finish its call, and a call that meets a full
\* queue returns the queue-full error and leaves the queue as it was.
FullQueueRejectsWithoutBlocking ==
    /\ [](Len(inQ) <= InCap)
    /\ [](\A c \in Callers :
            epc[c] = "locked" => ENABLED (\E in \in Inputs : EnqueueSend(c, in)))
    /\ [][\A c \in Callers, in \in Inputs :
            (EnqueueSend(c, in) /\ ~closed /\ Len(inQ) = InCap) =>
                /\ eres'[c] = "full"
                /\ epc'[c] = "idle"
                /\ inQ' = inQ]_vars

\* C7 witness: a caller was just told the queue is full, and it is full.
CallerSawFullQueue ==
    \E c \in Callers :
        eres[c] = "full" /\ epc[c] = "idle" /\ Len(inQ) = InCap /\ ~closed

\* An incoming message the store has not seen, with no back-pointers.
Fresh(in) ==
    /\ in.irt = 0
    /\ in.refs = {}
    /\ StoredWithSourceID(in.sid) = {}

\* C11: processing a fresh message that ends up persisted creates one
\* conversation, stores the message in it and hands that conversation to
\* the new-conversation trigger once; processing that creates no
\* conversation hands nothing to the trigger.
FreshMessageTriggersOnce ==
    [][IncomingProcess =>
        /\ (Fresh(ihand) /\ messages' # messages) =>
                /\ conversations' = Append(conversations, [by |-> ihand.sid])
                /\ messages' = Append(messages, [sid |-> ihand.sid,
                                                 conv |-> Len(conversations')])
                /\ newConvTriggers' = Append(newConvTriggers, Len(conversations'))
        /\ conversations' = conversations =>
                newConvTriggers' = newConvTriggers]_vars

\* The source ids an incoming message points back to.
ParentIDs(in) == in.refs \cup ({in.irt} \ {0})

\* The conversations that hold a stored message in points back to.
ParentConversations(in) ==
    {messages[i].conv : i \in {j \in 1..Len(messages) : messages[j].sid \in ParentIDs(in)}}

\* What the queue and the worker's hand hold is what was accepted and not
\* yet processed, in the order of acceptance.
IncomingFIFO ==
    SubSeq(accepted, nproc + 1, Len(accepted))
        = (IF ihand = NoInput THEN <<>> ELSE <<ihand>>) \o inQ

\* C10 as stated: for every conversation C that holds a stored message the
\* reply points back to, processing the reply creates no conversation and a
\* persisted reply is in C.
ReplyJoinsEveryParentConversation ==
    [][IncomingProcess =>
        \A C \in ParentConversations(ihand) :
            /\ conversations' = conversations
            /\ messages' # messages => messages'[Len(messages')].conv = C]_vars

\* C10 amended: the worker handles messages in the order of acceptance;
\* when the reply points back to some stored message, processing it creates
\* no conversation, and a persisted reply is in one of the conversations
\* that hold such a message (in C when they are all in C).
ReplyJoinsAParentConversation ==
    /\ []IncomingFIFO
    /\ [][IncomingProcess =>
            (ParentConversations(ihand) # {} =>
                /\ conversations' = conversations
                /\ messages' # messages =>
                    /\ Len(messages') = Len(messages) + 1
                    /\ messages'[Len(messages')].sid = ihand.sid
                    /\ messages'[Len(messages')].conv \in ParentConversations(ihand))]_vars

\* C10 witness: the message processed last is a reply to a message that was
\* enqueued before it, and it was stored in its parent's conversation.
ReplyStoredWithParent ==
    /\ nproc >= 2
    /\ iret = "nil"
    /\ accepted[nproc].irt # 0
    /\ \E p \in 1..(nproc - 1) : accepted[p].sid = accepted[nproc].irt
    /\ messages # <<>>
    /\ messages[Len(messages)].sid = accepted[nproc].sid
    /\ \E j \in 1..(Len(messages) - 1) :
            /\ messages[j].sid = accepted[nproc].irt
            /\ messages[j].conv = messages[Len(messages)].conv

---------------------------------------------------------------------------
(* Properties of shutdown                                                  *)

\* C8: once m.closed is set, a call of EnqueueIncoming returns the
\* queue-closed error, puts nothing on the queue and does not panic; no step
\* at all adds to the incoming queue.
ClosedRejectsEnqueue ==
    /\ [][closed => Len(inQ') <= Len(inQ) /\ accepted' = accepted]_vars
    /\ [][closed =>
            \A c \in Callers, in \in Inputs :
                EnqueueSend(c, in) =>
                    /\ eres'[c] = "closed"
                    /\ inQ' = inQ
                    /\ ~panicked']_vars

\* C8 witness: Close has begun and a caller was told the queue is closed.
CallerSawClosedQueue ==
    /\ closed
    /\ \E c \in Callers : eres[c] = "closed" /\ epc[c] = "idle"

\* Every worker goroutine has returned.
WorkersExited ==
    /\ ipc = "exited"
    /\ \A w \in Workers : wpc[w] = "exited"

\* No worker holds a message it has not finished.
NothingInHand ==
    /\ ihand = NoInput
    /\ \A w \in Workers : wmsg[w] = 0

\* Both queues are empty and every accepted incoming message was processed.
QueuesDrained ==
    /\ inQ = <<>>
    /\ outQ = <<>>
    /\ nproc = Len(accepted)

\* C9 as stated: when Close has returned, the workers have exited, nothing
\* is in a worker's hand and everything that was queued has been processed.
CloseReturnsAfterDrain ==
    cpc = "returned" => WorkersExited /\ NothingInHand /\ QueuesDrained

\* C9 amended: when Close has returned, the workers have exited and nothing
\* is in a worker's hand; everything that was queued has been processed
\* unless the context was cancelled.
CloseReturnsAfterWorkersExit ==
    cpc = "returned" =>
        /\ WorkersExited
        /\ NothingInHand
        /\ ~cancelled => QueuesDrained

\* C9 witness: Close has returned without a cancellation, after the workers
\* processed an incoming message and sent an outgoing one.
CloseReturnedAfterWork ==
    /\ cpc = "returned"
    /\ ~cancelled
    /\ nproc > 0
    /\ \E m \in Msgs : status[m] = MessageStatusSent

---------------------------------------------------------------------------
(* Properties of broadcasts and of the last-message summary                *)

\* A step in which a store write fails.
WriteFails ==
    \/ \E w \in Workers : WorkerStatusErr(w) \/ WorkerFailStatusErr(w)
    \/ \E m \in Msgs : MarkMessageAsPendingErr(m)
    \/ ScanRenderErrNoWrite
    \/ \E c \in Inserters : InsertExecErr(c)

\* C12: a new-message broadcast is always for a stored row; a step that
\* broadcasts a status has written that status, over the status the message
\* had; a step that broadcasts a new message is the broadcast of a caller
\* whose row is stored; a step whose store write fails broadcasts nothing.
BroadcastFollowsWrite ==
    /\ [](newMessages.uuid <= ninserted)
    /\ [][/\ propUpdates' # propUpdates =>
                /\ status'[propUpdates'.uuid] = propUpdates'.value
                /\ lastWrite'[propUpdates'.uuid].from = status[propUpdates'.uuid]
          /\ newMessages' # newMessages =>
                \E c \in Inserters :
                    /\ inspc[c] = "broadcast"
                    /\ insmsg[c] \in 1..ninserted
                    /\ newMessages'.uuid = insmsg[c]
          /\ WriteFails => UNCHANGED <<propUpdates, newMessages>>]_vars

\* C12 witness: a sent status and an inserted message have been broadcast.
BothBroadcastsSeen ==
    /\ propUpdates.value = MessageStatusSent
    /\ status[propUpdates.uuid] = MessageStatusSent
    /\ newMessages.uuid >= 1
    /\ newMessages.uuid <= ninserted

\* C13: when no InsertMessage call is under way, the conversation's
\* last-message summary is that of the row inserted last.
LastMessageIsLastInserted ==
    ((\A c \in Inserters : inspc[c] = "idle") /\ ninserted > 0)
        => lastMessage = ninserted

\* ToggleRule has left the rule disabled and no ToggleRule on it is under way.
DisabledAndReturned(r) ==
    /\ ~ruleEnabled[r]
    /\ \A c \in Togglers : trule[c] # r

\* C14: a task whose evaluation starts after a ToggleRule that disabled a
\* rule has returned does not evaluate that rule.
DisabledRuleNotEvaluated ==
    [][\A w \in AutoWorkers : AutoEval(w) =>
        \A r \in Rules : DisabledAndReturned(r) =>
            \A pr \in evaluated'[w] : pr[1] # r]_vars

\* C14 witness: with rule 1 disabled and every ToggleRule returned, a task
\* has evaluated rule 2 and not rule 1.
EvaluatedWithoutDisabledRule ==
    /\ DisabledAndReturned(1)
    /\ \A c \in Togglers : tpc[c] = "idle"
    /\ \E w \in AutoWorkers : evaluated[w] = {<<2, 1>>}

\* The rules a handler evaluates when it finds the whole set rs in e.rules.
EvaluatedFrom(rs, w) ==
    UNION {evalConversationRules(filterRulesByType(rs, HandlerRuleType(atask[w])), conv) :
           conv \in aconvs[w]}

\* C15: a handler that reads the snapshot while ReloadRules runs evaluates
\* from the whole set e.rules holds, the previous or the reloaded one; the
\* snapshot is only replaced by what a load under the write lock returned,
\* and a load returns only rules enabled in the store when it ran.
SnapshotReadWhole ==
    [][/\ \A w \in AutoWorkers : AutoEval(w) => evaluated'[w] = EvaluatedFrom(rules, w)
       /\ rules' # rules =>
            /\ rulesMu # 0
            /\ tpc[rulesMu] = "assign"
            /\ rules' = tlocal[rulesMu]
       /\ \A c \in Togglers : tlocal'[c] # tlocal[c] =>
            \A rule \in tlocal'[c] : ruleEnabled[rule.id] /\ rulesMu = c]_vars

\* C15 witness: a handler is about to read the snapshot while ReloadRules
\* holds the write lock with a reloaded set that differs from the snapshot.
ReaderMeetsReload ==
    /\ \E w \in AutoWorkers : apc[w] = "eval"
    /\ rulesMu # 0
    /\ tpc[rulesMu] = "assign"
    /\ tlocal[rulesMu] # rules
    /\ tlocal[rulesMu] # {}

RelevantType(taskType) ==
    CASE taskType = NewConversation -> RuleTypeNewConversation
      [] taskType = UpdateConversation -> RuleTypeConversationUpdate
      [] taskType = TimeTrigger -> RuleTypeTimeTrigger

\* C17: a task evaluates exactly the snapshot's rules of its own type, each
\* of them against each conversation fetched for the task.
TaskEvaluatesRulesOfItsType ==
    [][\A w \in AutoWorkers : AutoEval(w) =>
        evaluated'[w] =
            {pr \in Rules \X Convs :
                /\ [id |-> pr[1], type |-> RelevantType(atask[w].taskType)] \in rules
                /\ pr[2] \in aconvs[w]}]_vars

\* C17 witness: a time-trigger task has evaluated the one time-trigger rule
\* against two conversations of the window, and not the rule of another type.
TimeTriggerEvaluatedWindow ==
    /\ ruleType[1] = RuleTypeTimeTrigger
    /\ ruleType[2] = RuleTypeNewConversation
    /\ \E w \in AutoWorkers : evaluated[w] = {<<1, 1>>, <<1, 2>>}

\* C20: a handler whose fetch fails evaluates no rule and mutates no
\* conversation for its task, and its worker is back at the task queue, from
\* which it takes the next task as soon as there is one.
FailedFetchSkipsTask ==
    /\ [][\A w \in AutoWorkers : AutoFetchErr(w) =>
            /\ evaluated'[w] = {}
            /\ touched' = touched
            /\ apc'[w] = "recv"]_vars
    /\ [](\A w \in AutoWorkers :
            (apc[w] = "recv" /\ taskQueue # <<>>) => ENABLED AutoRecv(w))

\* C20 witness: after a fetch that failed, the worker has taken the next task
\* and fetched its conversation.
NextTaskHandledAfterFailedFetch ==
    \E w \in AutoWorkers :
        /\ fetchErr[w]
        /\ apc[w] = "eval"
        /\ aconvs[w] # {}
        /\ touched = {}

\* C18: EnqueueIncoming of a message that lacks a required field returns an
\* error and leaves the incoming queue as it was.
MalformedInputRejected ==
    [][\A c \in Callers, in \in MalformedInputs : EnqueueSend(c, in) =>
        /\ eres'[c] # "ok"
        /\ inQ' = inQ]_vars

\* A worker leaves its loop in this step.
IncomingExits == ipc # "exited" /\ ipc' = "exited"
WorkerExits(w) == wpc[w] # "exited" /\ wpc'[w] = "exited"

\* C19: a worker leaves its loop only from its select, on cancellation or on
\* its queue closed and drained; a message whose processing failed leaves the
\* worker at its select, from which it can take the next queued message.
FailureKeepsWorkerInLoop ==
    /\ [][/\ IncomingExits => (ipc = "recv" /\ (cancelled \/ (inClosed /\ inQ = <<>>)))
          /\ \A w \in Workers :
                WorkerExits(w) => (wpc[w] = "recv" /\ (cancelled \/ (outClosed /\ outQ = <<>>)))
          /\ IncomingProcess => ipc' = "recv"
          /\ \A w \in Workers :
                (werr[w] # "none" /\ (WorkerFailStatus(w) \/ WorkerDelete(w)))
                    => wpc'[w] = "recv"]_vars
    /\ []((ipc = "recv" /\ inQ # <<>> /\ ~panicked) => ENABLED IncomingRecv)
    /\ [](\A w \in Workers :
            (wpc[w] = "recv" /\ outQ # <<>> /\ ~panicked) => ENABLED WorkerRecv(w))

\* C19 witness: the incoming worker stored the redelivered message after the
\* first delivery failed at the insert, and the dispatch workers are back at
\* their select after the send of a message failed.
WorkersWentOnAfterFailure ==
    /\ nproc = 2
    /\ iret = "nil"
    /\ Len(conversations) = 2
    /\ Len(messages) = 1
    /\ messages[1].conv = 2
    /\ ipc = "recv"
    /\ \E m \in Msgs :
        /\ status[m] = MessageStatusFailed
        /\ lastWrite[m].site = "send"
    /\ \A w \in Workers : wpc[w] = "recv"
    /\ ~cancelled /\ ~outClosed /\ ~inClosed /\ ~panicked

\* C21: no step changes the status of a message that is received, and no
\* incoming message is ever on the dispatch queue or held by a worker.
ReceivedIsTerminal ==
    /\ [][\A m \in AllMsgs :
            status[m] = MessageStatusReceived => status'[m] = MessageStatusReceived]_vars
    /\ [](\A m \in ReceivedMsgs :
            /\ m \notin Range(outQ)
            /\ \A w \in Workers : wmsg[w] # m)

\* C22: the first-reply stamp is set by the first successful send (it is the
\* stamp of the message whose Send returned nil first), a stamp that is set
\* never changes, and a step of a worker whose Send failed leaves it alone.
FirstReplyStampedByFirstSend ==
    [][/\ firstReplyAt # 0 => firstReplyAt' = firstReplyAt
       /\ firstReplyAt' # firstReplyAt =>
            /\ firstReplyAt' = firstSent
            /\ \E w \in Workers :
                WorkerFirstReply(w) /\ werr[w] = "none" /\ wmsg[w] = firstSent]_vars

\* C22 (amended): the stamp is set once, by a worker whose Send returned nil
\* and with the message that worker holds; a stamp that is set never changes,
\* no step of a worker whose Send failed touches it, and a worker that is
\* past its first-reply update after a successful send finds the stamp set.
FirstReplyStampedOnce ==
    /\ [][/\ firstReplyAt # 0 => firstReplyAt' = firstReplyAt
          /\ firstReplyAt' # firstReplyAt =>
                \E w \in Workers :
                    WorkerFirstReply(w) /\ werr[w] = "none" /\ firstReplyAt' = wmsg[w]
          /\ \A w \in Workers :
                (werr[w] # "none" /\ (WorkerStatus(w) \/ WorkerDelete(w)))
                    => firstReplyAt' = firstReplyAt]_vars
    /\ [](\A w \in Workers :
            (wpc[w] = "delete" /\ werr[w] = "none") => firstReplyAt # 0)

\* C22 witness: two messages of the conversation have been sent; the stamp
\* is that of the one whose Send did not return first, and it was kept.
StampOfTheLaterSendKept ==
    /\ firstSent # 0
    /\ firstReplyAt # 0
    /\ firstReplyAt # firstSent
    /\ status[firstSent] = MessageStatusSent
    /\ status[firstReplyAt] = MessageStatusSent
    /\ \A w \in Workers : wpc[w] = "recv"

\* Every loop of the pipeline and of the engine has returned.
AllReturned ==
    /\ spc = "exited"
    /\ ipc = "exited"
    /\ \A w \in Workers : wpc[w] = "exited"
    /\ rpc = "exited"
    /\ \A w \in AutoWorkers : apc[w] = "exited"

\* C23: once the shared context is cancelled, the scanner, the incoming
\* worker, the dispatch workers, Engine.Run and the automation workers all
\* eventually return.
CancelStopsEveryLoop == cancelled ~> AllReturned

\* C24: the scanner never sends on the closed dispatch queue, and a worker
\* that finds the queue closed and drained returns without a panic.
NoSendOnClosedDispatchQueue ==
    [][/\ ~ScanPushClosed
       /\ \A w \in Workers : WorkerQueueClosed(w) => (wpc'[w] = "exited" /\ ~panicked')]_vars

\* C25: a status write of the pipeline is made by a dispatch worker while the
\* message it holds has its in-flight entry; the scanner writes no status.
StatusWrittenByEntryHolder ==
    [][/\ \A w \in Workers :
            (WorkerStatus(w) \/ WorkerFailStatus(w)) => wmsg[w] \in inflight
       /\ ~ScanRenderErr]_vars

\* C26: whenever the scanner is at its push and the dispatch queue is full,
\* the scanner has a step of its own to take (it does not wait for room), and
\* the message it wanted to push is still pending in storage.
ScannerNeverWaitsForRoom ==
    [](spc = "push" /\ Len(outQ) >= OutCap =>
        /\ ENABLED ScannerStep
        /\ status[Head(pendingMessages)] = MessageStatusPending)

\* C27: a Broadcast call that returns has made exactly one hand-off to the
\* hub, or none when json.Marshal failed; the hand-off of a conversation-scoped
\* broadcast is addressed to the user ids the hub reported when the call
\* resolved the subscribers, the one of BroadcastNewConversation to the one
\* given user id; no hand-off is made at any other moment of the call.
OneAddressedHandOff ==
    /\ [][\A b \in Broadcasters :
            /\ (bpc[b] = "resolve" /\ bpc'[b] # "resolve") =>
                    userIDs'[b] = subscribers[bconv[b]]
            /\ (bpc[b] = "marshal" /\ bpc'[b] = "idle") =>
                    handoffs'[b] =
                        IF jsonMarshalErr(b) THEN <<>>
                        ELSE IF bkind[b] = MessageTypeNewConversation
                             THEN <<{buser[b]}>>
                             ELSE <<userIDs[b]>>
            /\ bpc[b] = "marshal" => userIDs'[b] = userIDs[b]]_vars
    /\ [](\A b \in Broadcasters :
            /\ bpc[b] # "idle" => handoffs[b] = <<>>
            /\ bpc[b] = "resolve" => bkind[b] \in ConversationScoped)

\* C27 witness: one call returned after a hand-off to subscribers that have
\* changed since it resolved them, one after a failed json.Marshal, no hand-off.
HandOffAndFailedMarshalSeen ==
    \E b1, b2 \in Broadcasters :
        /\ bpc[b1] = "idle" /\ bkind[b1] \in ConversationScoped
        /\ userIDs[b1] # {} /\ handoffs[b1] = <<userIDs[b1]>>
        /\ subscribers[bconv[b1]] # userIDs[b1]
        /\ bpc[b2] = "idle" /\ bvalue[b2] = "unserializable"
        /\ handoffs[b2] = <<>>

\* C28: a dispatch worker that holds a message and has yet to write its
\* status, the message being pending in the store, still has the message's
\* in-flight entry in place.
EntryKeptUntilStatusWritten ==
    [](\A w \in Workers :
        (/\ wpc[w] \in {"inbox", "attach", "send", "status", "failstatus"}
         /\ status[wmsg[w]] = MessageStatusPending)
        => wmsg[w] \in inflight)

PrivateNeverHandedToSend ==
    /\ [](\A m \in PrivateMsgs :
            lastWrite[m].site = "insert" => status[m] = MessageStatusSent)
    /\ [][\A w \in Workers :
            (WorkerSend(w, "none") \/ WorkerSend(w, "send")) => ~Private(wmsg[w])]_vars

\* C31: between two runs of processIncomingMessage every stored conversation
\* holds at least one stored message, so a message whose insert failed has
\* left no conversation behind.
NoConversationWithoutMessage ==
    [](\A i \in 1..Len(conversations) :
        \E j \in 1..Len(messages) : messages[j].conv = i)

---------------------------------------------------------------------------
(* Properties of the rule store and its reload                             *)

\* The rule records the store holds as enabled, tagged with their type.
EnabledInStore ==
    {[id |-> r, type |-> ruleType[r]] :
        r \in {x \in Rules : ruleType[x] # RuleAbsent /\ ruleEnabled[x]}}

\* Every caller has made a rule call, and the last call of each returned nil.
AllReturnedNil == \A c \in Togglers : tpc[c] = "idle" /\ tres[c] = "nil"

\* C32 as stated: once every rule call has returned successfully the
\* snapshot equals the set of rules enabled in the store.
SnapshotEqualsEnabledRules ==
    [](AllReturnedNil => rules = EnabledInStore)

\* C32 amended: every reload reads the store while it holds the write lock;
\* once every rule call has returned nil the snapshot is what the query
\* loads from the store (the enabled records that decode), or it is empty,
\* the query of the last reload having failed; a last reload that loaded
\* something leaves the snapshot equal to what the query loads.
SnapshotEqualsLoadedRules ==
    /\ [][\A c \in Togglers :
            /\ (ReloadQuery(c) \/ ReloadQueryErr(c)) => rulesMu = c
            /\ (/\ ReloadAssign(c)
                /\ tlocal[c] # {}
                /\ \A d \in Togglers \ {c} : tpc[d] = "idle") => rules' = queryRules']_vars
    /\ [](AllReturnedNil => rules \in {queryRules, {}})

\* C32 witness: both callers have returned nil, record 1 is deleted, record 2
\* was created and the snapshot holds exactly record 2.
SnapshotFollowsConcurrentCalls ==
    /\ AllReturnedNil
    /\ ruleType[1] = RuleAbsent
    /\ ruleType[2] # RuleAbsent
    /\ rules = {[id |-> 2, type |-> ruleType[2]]}

\* The ids of the records a successful query loads: enabled, and decoding.
Decodable ==
    {r \in Rules : ruleType[r] # RuleAbsent /\ ruleEnabled[r] /\ ruleDecodes[r]}

\* C33: a reload whose query failed replaces the snapshot by the empty set;
\* while the snapshot is empty a handler evaluates no rule; a query that
\* succeeds loads every enabled record that decodes and skips the others.
FailedReloadEmptiesSnapshot ==
    [][/\ \A c \in Togglers :
            /\ ReloadQueryErr(c) => tlocal'[c] = {}
            /\ ReloadAssign(c) => rules' = tlocal[c]
            /\ ReloadQuery(c) => {rule.id : rule \in tlocal'[c]} = Decodable
       /\ \A w \in AutoWorkers :
            (AutoEval(w) /\ rules = {}) => evaluated'[w] = {} /\ touched' = touched]_vars

\* C33 witness: the snapshot was loaded without record 1, which is enabled
\* but does not decode; a reload whose query returned nothing is about to
\* replace it while a handler waits to evaluate a conversation.
SkippedRecordThenFailedQuery ==
    /\ ruleEnabled[1] /\ ~ruleDecodes[1]
    /\ rules = {[id |-> 2, type |-> ruleType[2]]}
    /\ \E c \in Togglers : tpc[c] = "assign" /\ tlocal[c] = {} /\ ruleDecodes[2]
    /\ \E w \in AutoWorkers : apc[w] = "eval" /\ aconvs[w] # {}

\* C34: a rule call whose store write fails returns an error without a
\* reload: the caller is back at rest, and the store, the snapshot, the write
\* lock and every reload under way are as they were.
FailedWriteLeavesSnapshot ==
    [][\A c \in Togglers :
        (\/ CreateExecErr(c) \/ UpdateExecErr(c) \/ DeleteExecErr(c)
         \/ \E r \in Rules : ToggleExecErr(c, r)) =>
            /\ tres'[c] = "err"
            /\ tpc'[c] = "idle"
            /\ rules' = rules /\ rulesMu' = rulesMu /\ tlocal' = tlocal
            /\ ruleType' = ruleType /\ ruleEnabled' = ruleEnabled
            /\ ruleDecodes' = ruleDecodes]_vars

\* C34 witness: one caller's last call returned an error, the other's
\* returned nil after its reload, and the snapshot holds what that reload
\* loaded.
FailedWriteAfterReload ==
    \E c, d \in Togglers :
        /\ tpc[c] = "idle" /\ tres[c] = "err"
        /\ tpc[d] = "idle" /\ tres[d] = "nil"
        /\ rules = queryRules /\ Cardinality(rules) = 2

---------------------------------------------------------------------------
(* Close against the callers: Manager.Close with EnqueueIncoming, and      *)
(* Engine.Close with the two Evaluate calls, neither context cancelled     *)

CloseNext ==
    \/ CloseLock
    \/ CloseOutgoing
    \/ CloseIncoming
    \/ CloseWait
    \/ EnqueueLock(1)
    \/ \E in \in Inputs : in.sid = 1 /\ EnqueueSend(1, in)
    \/ IncomingRecv
    \/ IncomingProcess
    \/ IncomingQueueClosed
    \/ \E w \in Workers : WorkerQueueClosed(w)
    \/ EngineCloseLock
    \/ EngineCloseClosed
    \/ EngineCloseNew
    \/ EngineCloseUpdate
    \/ EngineCloseWait
    \/ EvaluateNewConversationRules(1)
    \/ EvaluateConversationUpdateRules(1)
    \/ RunRecvNew
    \/ RunRecvUpdate
    \/ RunPush
    \/ RunNewClosed
    \/ RunUpdateClosed
    \/ \E w \in AutoWorkers : AutoRecv(w)
    \/ \E w \in AutoWorkers : AutoFetch(w)
    \/ \E w \in AutoWorkers : AutoEval(w)
    \/ \E w \in AutoWorkers : AutoQueueClosed(w)

SpecClose == ShutdownInit /\ [][CloseNext]_vars

\* C35: no caller-facing enqueue sends on a closed queue. In every
\* interleaving of Manager.Close with EnqueueIncoming and of Engine.Close
\* with EvaluateNewConversationRules and EvaluateConversationUpdateRules, a
\* call that runs once the queue is closed panics nowhere, leaves the queue
\* as it is and (EnqueueIncoming) returns the closed error; any other call
\* completed before the queue was closed.
EnqueueNeverSendsOnClosedQueue ==
    /\ [][(epc[1] = "locked" /\ \E in \in Inputs : EnqueueSend(1, in)) =>
            /\ panicked' = panicked
            /\ inClosed => (inQ' = inQ /\ eres'[1] = "closed")]_vars
    /\ [][EvaluateNewConversationRules(1) =>
            /\ epanicked' = epanicked
            /\ newClosed => newConversationQ' = newConversationQ]_vars
    /\ [][EvaluateConversationUpdateRules(1) =>
            /\ epanicked' = epanicked
            /\ updClosed => updateConversationQ' = updateConversationQ]_vars

\* C35: one message was accepted before Manager.Close and a later call was
\* turned away with the closed error; an event was evaluated and Engine.Close
\* has returned with both trigger queues closed.
EnqueuedBeforeAndRefusedAfterClose ==
    /\ accepted # <<>>
    /\ inClosed
    /\ eres[1] = "closed"
    /\ cpc = "returned"
    /\ \E w \in AutoWorkers : evaluated[w] # {}
    /\ newClosed
    /\ updClosed
    /\ ecpc = "returned"
    /\ ~panicked
    /\ ~epanicked

\* C36: Engine.Run does not return while an event accepted before
\* Engine.Close still waits in the new-conversation or in the update
\* trigger queue (the context is never cancelled here): once Run has
\* returned, both trigger queues are empty.
RunReturnsWithTriggerQueuesDrained ==
    rpc = "exited" => (newConversationQ = <<>> /\ updateConversationQ = <<>>)

\* C37: while the pipeline runs (neither closed nor cancelled) no in-flight
\* entry is leaked. Every id in the in-flight set is in the dispatch queue,
\* or is the message the scanner is about to push, or is held by a dispatch
\* worker; so with the queue empty, every worker idle and no scan tick in
\* progress the set is empty, and the next scan selects every pending
\* message.
NoInFlightEntryLeaked ==
    /\ \A m \in inflight :
        \/ Queued(m) # {}
        \/ spc = "push" /\ Head(pendingMessages) = m
        \/ Holders(m) # {}
    /\ (outQ = <<>> /\ spc = "tick" /\ \A w \in Workers : wpc[w] = "recv") =>
        /\ inflight = {}
        /\ GetPendingMessages(getOutgoingProcessingMessageIDs)
             = GetPendingMessages({})

\* C37: a message went through the queue and a worker and was sent; the
\* pipeline is at rest again and its entry is gone.
AtRestAfterSendWithEmptySet ==
    /\ outQ = <<>>
    /\ spc = "tick"
    /\ \A w \in Workers : wpc[w] = "recv"
    /\ \E m \in Msgs : status[m] = MessageStatusSent
    /\ inflight = {}

\* C38: a second call of Manager.Close is safe, like a second call of
\* Engine.Close: no Close closes a queue that is already closed, so neither
\* panics (no caller and no scanner sends here; the only possible panic is
\* the close of a closed queue), and a repeated Engine.Close returns at its
\* closed test with both trigger queues as the first call left them.
RepeatedCloseIsSafe ==
    /\ ~panicked
    /\ ~epanicked
    /\ ecpc = "returnedclosed" => (eclosed /\ newClosed /\ updClosed)

====
